---- MODULE Spec2Model ----
(***************************************************************************)
(* A model of the Pattern Highlighter content script: the scheduler        *)
(* (patternHighlighting with its lock and MutationObserver), the identity  *)
(* assigner, the snapshot copies, the tree matcher (findPatternDeep) and   *)
(* the result aggregator, running against a page that changes.             *)
(*                                                                         *)
(* The document is a fixed skeleton of element positions (ParentOf); an    *)
(* element occupies a position or the position is empty.  Document order   *)
(* is ascending position number.  The text of an element is one token;     *)
(* innerText is the sequence of the tokens of the subtree in document      *)
(* order, and a detector's regular expression is modelled by the set of    *)
(* tokens it matches.                                                      *)
(***************************************************************************)
EXTENDS Integers, Sequences, FiniteSets, TLC

\* ------------------------------------------------------------------ bounds

\* Element positions the page may fill (the shadow element has its own).
MaxNodes == 3
\* How many changes the page's scripts and showElement make to the document in
\* one behaviour.
MaxDomChanges == 2
\* How many invocations of patternHighlighting may be alive at once.
MaxInvocations == 2
\* How many tabs the background script knows.
MaxTabs == 2
\* How many requests to the storage area may be under way at once.
MaxPending == 2
\* The largest count a tab reports.
MaxCount == 1
\* How many newline characters may end the text of a manifest.
MaxNewlines == 2
\* How many showElement messages of the popup may be under way at once.
MaxSending == 2
\* How many calls of refreshTab of the popup may be under way at once.
MaxRefreshing == 2

\* ------------------------------------------------------------ the document

Body == 0
Null == -1
NoPhid == -1

PageSlots == 1..MaxNodes
ShadowSlot == MaxNodes + 1
AllSlots == 1..(MaxNodes + 1)
SlotSeq == [i \in 1..(MaxNodes + 1) |-> i]

\* The skeleton: positions 1, 4, 7, ... are children of the body, the two
\* positions after each are its children; the shadow element is appended to
\* the body (document.body.appendChild).
ParentOf(n) ==
    IF n = ShadowSlot THEN Body
    ELSE IF n % 3 = 1 THEN Body
    ELSE 3 * ((n - 1) \div 3) + 1

RECURSIVE Ancestors(_)
Ancestors(n) ==
    IF n = Body THEN {} ELSE {ParentOf(n)} \cup Ancestors(ParentOf(n))

Subtree(r) == {n \in AllSlots : n = r \/ r \in Ancestors(n)}

\* A class name is kept as its prefix and the rest, so that the regular
\* expression of resetDetectedPatterns (every class that starts with the
\* prefix) can be applied to it.
extensionClassPrefix == "__ph__"
ExtClass(name) == [prefix |-> extensionClassPrefix, name |-> name]
patternDetectedClassName == ExtClass("pattern-detected")
currentPatternClassName == ExtClass("current-pattern")
tagBlacklist == {"script", "style", "noscript", "audio", "video"}

AbsentElem ==
    [present |-> FALSE, tag |-> "div", text |-> "", phid |-> NoPhid,
     cls |-> {}, hidden |-> FALSE]

NewElem(tag, text, hidden) ==
    [present |-> TRUE, tag |-> tag, text |-> text, phid |-> NoPhid,
     cls |-> {}, hidden |-> hidden]

EmptyTree == [n \in AllSlots |-> AbsentElem]

\* node.children: the element children present, in document order.
Children(t, p) ==
    SelectSeq(SlotSeq, LAMBDA n : t[n].present /\ ParentOf(n) = p)

\* elem.remove(): the element leaves the tree with its subtree.
RemoveNode(t, r) ==
    [n \in AllSlots |-> IF n \in Subtree(r) THEN AbsentElem ELSE t[n]]

\* node.innerText of a node of a detached copy: the text of the subtree.
InnerText(t, r) ==
    LET s == SelectSeq(SlotSeq, LAMBDA n : /\ t[n].present
                                           /\ t[n].text # ""
                                           /\ (r = Body \/ n \in Subtree(r)))
    IN  [i \in 1..Len(s) |-> t[s[i]].text]

Min(S) == CHOOSE m \in S : \A k \in S : m <= k

\* ------------------------------------------------------- identity assigner

RECURSIVE AddPhidFrom(_, _, _)
AddPhidFrom(t, c, i) ==
    IF i > MaxNodes + 1 THEN [tree |-> t, counter |-> c]
    ELSE IF t[i].present /\ t[i].phid = NoPhid
         THEN AddPhidFrom([t EXCEPT ![i].phid = c], c + 1, i + 1)
         ELSE AddPhidFrom(t, c, i + 1)

\* An assigner that gives every element a fresh identifier at each call.
addPhidAfresh(t, c) ==
    LET stamped == {n \in AllSlots : t[n].present}
        rank(n) == Cardinality({m \in stamped : m < n})
    IN  [tree |-> [n \in AllSlots |->
                      IF t[n].present THEN [t[n] EXCEPT !.phid = c + rank(n)]
                      ELSE t[n]],
         counter |-> c + Cardinality(stamped)]

\* addPhidForEveryElement(document.body): querySelectorAll("*") yields the
\* descendants of the body in document order; the body itself is not among
\* them.
addPhidForEveryElement(t, c) == AddPhidFrom(t, c, 1)

\* dom.querySelector('[data-phid="' + id + '"]'): the first element in
\* document order with that attribute value; an element without the
\* attribute never matches (the root's id reads "undefined").
getElementByPhid(t, id) ==
    LET m == {n \in AllSlots : t[n].present /\ t[n].phid = id}
    IN  IF id = NoPhid \/ m = {} THEN Null ELSE Min(m)

\* ----------------------------------------------------------- subtree filter

RECURSIVE RemoveBlacklistFrom(_, _)
RemoveBlacklistFrom(t, i) ==
    IF i > MaxNodes + 1 THEN t
    ELSE IF t[i].present /\ t[i].tag \in tagBlacklist
         THEN RemoveBlacklistFrom(RemoveNode(t, i), i + 1)
         ELSE RemoveBlacklistFrom(t, i + 1)

removeBlacklistNodes(t) == RemoveBlacklistFrom(t, 1)

\* ---------------------------------------------------------------- detectors

\* The texts of the model and what the regular expressions of constants.js
\* find in each.
CountdownFields(tok) ==
    CASE tok = "00:02" -> <<0, 2>>
      [] tok = "00:01" -> <<0, 1>>
      [] tok = "23:59:58" -> <<23, 59, 58>>
      [] tok = "23:59:57" -> <<23, 59, 57>>
      [] tok = "23:58:59" -> <<23, 58, 59>>
      [] tok = "59:58" -> <<59, 58>>
      [] OTHER -> <<>>

\* What `reg` matches once `regBad` has been taken out: "01:02:03:04:05" has
\* too many numbers and is removed.
IsCountdownText(tok) == CountdownFields(tok) # <<>>

MatchesScarcityEn(tok) ==
    tok \in {"10 available", "3 sold, 5 users bought this item"}
MatchesScarcityDe(tok) == tok \in {"letzter Artikel", "10 Stück verfügbar"}
MatchesSocialProofEn(tok) == tok \in {"3 sold, 5 users bought this item"}
MatchesSocialProofDe(tok) == tok \in {"5 Kunden kauften auch diesen Artikel"}
MatchesForcedContinuityEn(tok) == tok \in {"$10.99/month after"}
MatchesForcedContinuityDe(tok) == tok \in {"danach 10 Euro/Monat"}

\* The tokens of an innerText.
Tokens(txt) == {txt[i] : i \in 1..Len(txt)}

\* A comparison that is satisfied by any smaller number, wherever it stands.
CountdownAnyNumberSmaller(numbersNew, numbersOld, x) ==
    \E y \in x..Len(numbersNew) : numbersNew[y] < numbersOld[y]

\* The inner loop of the countdown detector over one pair of matches: the
\* numbers are compared left to right; a larger current number ends the pair,
\* a smaller one is a running countdown.
RECURSIVE CountdownPairRuns(_, _, _)
CountdownPairRuns(numbersNew, numbersOld, x) ==
    IF x > Len(numbersNew) THEN FALSE
    ELSE IF numbersNew[x] > numbersOld[x] THEN FALSE
    ELSE IF numbersNew[x] < numbersOld[x] THEN TRUE
    ELSE CountdownPairRuns(numbersNew, numbersOld, x + 1)

\* The countdown detector on the two texts (the previous state exists).
CountdownDetect(txtNew, txtOld) ==
    LET matchesNew == SelectSeq(txtNew, IsCountdownText)
        matchesOld == SelectSeq(txtOld, IsCountdownText)
    IN  IF txtNew = txtOld THEN FALSE
        ELSE IF matchesNew = <<>> \/ matchesOld = <<>>
                \/ Len(matchesNew) # Len(matchesOld) THEN FALSE
        ELSE \E i \in 1..Len(matchesNew) :
                LET numbersNew == CountdownFields(matchesNew[i])
                    numbersOld == CountdownFields(matchesOld[i])
                IN  /\ Len(numbersNew) = Len(numbersOld)
                    /\ CountdownPairRuns(numbersNew, numbersOld, 1)

\* What a call func(node, nodeOld) yields: "true", "false", a non-boolean
\* ("array", "null") or "throw".  The first seven kinds are the detection
\* functions of constants.js.  The last three are functions a configuration
\* may add: one reads nodeOld.innerText without testing nodeOld, one does so
\* only when the node's text holds a countdown, one returns the result of
\* String.prototype.match.
DetectorResult(kind, t, node, tOld, nodeOld) ==
    LET txt == InnerText(t, node)
        bool(b) == IF b THEN "true" ELSE "false"
    IN  CASE kind = "countdown" ->
               bool(nodeOld # Null /\ CountdownDetect(txt, InnerText(tOld, nodeOld)))
          [] kind = "scarcityEn" -> bool((\E tok \in Tokens(txt) : MatchesScarcityEn(tok)))
          [] kind = "scarcityDe" -> bool((\E tok \in Tokens(txt) : MatchesScarcityDe(tok)))
          [] kind = "socialProofEn" -> bool((\E tok \in Tokens(txt) : MatchesSocialProofEn(tok)))
          [] kind = "socialProofDe" -> bool((\E tok \in Tokens(txt) : MatchesSocialProofDe(tok)))
          [] kind = "forcedContinuityEn" ->
               bool((\E tok \in Tokens(txt) : MatchesForcedContinuityEn(tok)))
          [] kind = "forcedContinuityDe" ->
               bool((\E tok \in Tokens(txt) : MatchesForcedContinuityDe(tok)))
          [] kind = "changedSincePrevious" ->
               IF nodeOld = Null THEN "throw"
               ELSE bool(txt # InnerText(tOld, nodeOld))
          [] kind = "countdownChanged" ->
               IF ~(\E tok \in Tokens(txt) : IsCountdownText(tok)) THEN "false"
               ELSE IF nodeOld = Null THEN "throw"
               ELSE bool(txt # InnerText(tOld, nodeOld))
          [] kind = "matchScarcityEn" ->
               IF (\E tok \in Tokens(txt) : MatchesScarcityEn(tok)) THEN "array" ELSE "null"
          [] OTHER -> "false"

\* The truthiness test of `if (func(node, nodeOld))`.
Truthy(r) == r \in {"true", "array"}

\* ------------------------------------------------------------ configuration

\* A JavaScript value of a configuration field: its typeof and its text.
Str(s) == [type |-> "string", val |-> s]
Undefined == [type |-> "undefined", val |-> ""]

\* !v for such a value: the empty string and undefined are falsy.
Falsy(v) == v.type = "undefined" \/ (v.type = "string" /\ v.val = "")

DetectionFunction(kind) == [isFunction |-> TRUE, length |-> 2, kind |-> kind]

Pattern(name, className, kinds) ==
    [name |-> Str(name),
     className |-> Str(className),
     detectionFunctions |->
        [isArray |-> TRUE,
         items |-> [i \in 1..Len(kinds) |-> DetectionFunction(kinds[i])]],
     infoUrl |-> Str("https://dapde.de/"),
     info |-> Str("info"),
     languages |-> [isArray |-> TRUE, items |-> <<Str("en"), Str("de")>>]]

\* patternConfig.patterns as shipped.
ShippedConfig ==
    << Pattern("Countdown", "countdown", <<"countdown">>),
       Pattern("Scarcity", "scarcity", <<"scarcityEn", "scarcityDe">>),
       Pattern("Social Proof", "social-proof",
               <<"socialProofEn", "socialProofDe">>),
       Pattern("Forced Continuity", "forced-continuity",
               <<"forcedContinuityEn", "forcedContinuityDe">>) >>

\* Configurations extended by a pattern, as the README invites: one whose
\* detector throws when the node has no previous state, one whose detector
\* returns a non-boolean, and one with a duplicate name.
ThrowingConfig ==
    << Pattern("Changed", "changed", <<"changedSincePrevious">>),
       Pattern("Scarcity", "scarcity", <<"scarcityEn", "scarcityDe">>) >>

NonBooleanConfig ==
    << Pattern("Scarcity (match)", "scarcity-match", <<"matchScarcityEn">>),
       Pattern("Social Proof", "social-proof",
               <<"socialProofEn", "socialProofDe">>) >>

\* A configuration whose first detector throws only for an element that shows
\* a countdown and has no previous state.
ThrowingLaterConfig ==
    << Pattern("Countdown (changed)", "countdown-changed", <<"countdownChanged">>),
       Pattern("Scarcity", "scarcity", <<"scarcityEn", "scarcityDe">>) >>

DuplicateNameConfig ==
    << Pattern("Countdown", "countdown", <<"countdown">>),
       Pattern("Countdown", "scarcity", <<"scarcityEn", "scarcityDe">>) >>

Configs ==
    {ShippedConfig, ThrowingConfig, ThrowingLaterConfig, NonBooleanConfig,
     DuplicateNameConfig}

PatternValid(p) ==
    /\ ~Falsy(p.name) /\ p.name.type = "string"
    /\ ~Falsy(p.className) /\ p.className.type = "string"
    /\ p.detectionFunctions.isArray /\ Len(p.detectionFunctions.items) > 0
    /\ \A i \in 1..Len(p.detectionFunctions.items) :
          /\ p.detectionFunctions.items[i].isFunction
          /\ p.detectionFunctions.items[i].length = 2
    /\ ~Falsy(p.infoUrl) /\ p.infoUrl.type = "string"
    /\ ~Falsy(p.info) /\ p.info.type = "string"
    /\ p.languages.isArray /\ Len(p.languages.items) > 0
    /\ \A i \in 1..Len(p.languages.items) :
          ~Falsy(p.languages.items[i]) /\ p.languages.items[i].type = "string"

\* A validation that does not compare the names.
validateWithoutNames(cfg) == \A i \in 1..Len(cfg) : PatternValid(cfg[i])

validatePatternConfig(cfg) ==
    /\ Cardinality({cfg[i].name : i \in 1..Len(cfg)}) = Len(cfg)
    /\ \A i \in 1..Len(cfg) : PatternValid(cfg[i])

\* --------------------------------------------------------------- tree matcher

NoClass == ""

\* findPatterInNode from pattern p, detection function f on: the class name of
\* the first pattern one of whose functions yields a truthy value, NoClass when
\* none does; a throwing function ends the search with the exception.
RECURSIVE FindPatternFrom(_, _, _, _, _, _, _)
FindPatternFrom(cfg, p, f, t, node, tOld, nodeOld) ==
    IF p > Len(cfg) THEN [thrown |-> FALSE, className |-> NoClass]
    ELSE IF f > Len(cfg[p].detectionFunctions.items)
         THEN FindPatternFrom(cfg, p + 1, 1, t, node, tOld, nodeOld)
    ELSE LET r == DetectorResult(cfg[p].detectionFunctions.items[f].kind,
                                  t, node, tOld, nodeOld)
         IN  IF r = "throw" THEN [thrown |-> TRUE, className |-> NoClass]
             ELSE IF Truthy(r)
                  THEN [thrown |-> FALSE, className |-> cfg[p].className.val]
             ELSE FindPatternFrom(cfg, p, f + 1, t, node, tOld, nodeOld)

findPatterInNode(cfg, t, node, tOld, nodeOld) ==
    FindPatternFrom(cfg, 1, 1, t, node, tOld, nodeOld)

\* A root that reads as carrying the first identifier.
PhidOfStampedRoot(t, node) == IF node = Body THEN 0 ELSE t[node].phid

\* node.dataset.phid of a node of the copy; the root (the body) has none.
PhidOf(t, node) == IF node = Body THEN NoPhid ELSE t[node].phid

\* elem.classList.add(patternDetectedClassName, extensionClassPrefix + found)
AddClasses(doc, elem, className) ==
    [doc EXCEPT ![elem].cls = @ \cup {patternDetectedClassName, ExtClass(className)}]

\* A visit that tags the live element and leaves the copies as they are.
VisitNodeWithoutPruning(cfg, st, node) ==
    LET nodeOld == getElementByPhid(st.older, PhidOf(st.newer, node))
        found == findPatterInNode(cfg, st.newer, node, st.older, nodeOld)
        elem == getElementByPhid(st.doc, PhidOf(st.newer, node))
        seen == [st EXCEPT !.visited =
                    Append(@, [node |-> node, nodeOld |-> nodeOld,
                               className |-> found.className,
                               newer |-> st.newer, older |-> st.older,
                               doc |-> st.doc])]
    IN  IF found.thrown THEN [seen EXCEPT !.thrown = TRUE]
        ELSE IF found.className = NoClass \/ elem = Null THEN seen
        ELSE [seen EXCEPT !.doc = AddClasses(@, elem, found.className)]

\* The part of findPatternDeep after the loop over the children: the node is
\* tested and, on a match, the live element is tagged and the node and its
\* previous state leave the copies.  `visited` records the calls of
\* findPatterInNode in their order: the node, its previous state, the two
\* copies and the document as they were at the call, and the class name
\* returned.
VisitNode(cfg, st, node) ==
    LET nodeOld == getElementByPhid(st.older, PhidOf(st.newer, node))
        found == findPatterInNode(cfg, st.newer, node, st.older, nodeOld)
        elem == getElementByPhid(st.doc, PhidOf(st.newer, node))
        seen == [st EXCEPT !.visited =
                    Append(@, [node |-> node, nodeOld |-> nodeOld,
                               className |-> found.className,
                               newer |-> st.newer, older |-> st.older,
                               doc |-> st.doc])]
    IN  IF found.thrown THEN [seen EXCEPT !.thrown = TRUE]
        ELSE IF found.className = NoClass THEN seen
        ELSE [seen EXCEPT
                !.doc = IF elem # Null THEN AddClasses(@, elem, found.className)
                        ELSE @,
                !.older = IF nodeOld # Null THEN RemoveNode(@, nodeOld) ELSE @,
                !.newer = IF node # Body THEN RemoveNode(@, node) ELSE @]

\* findPatternDeep(node, domOld).  `for (const child of node.children)` walks
\* a live collection by index: after the recursive call the collection is read
\* again, so a child that removed itself shortens it.
RECURSIVE findPatternDeepFrom(_, _, _, _)
findPatternDeepFrom(cfg, st, node, i) ==
    LET children == Children(st.newer, node)
    IN  IF st.thrown THEN st
        ELSE IF i > Len(children) THEN VisitNode(cfg, st, node)
        ELSE findPatternDeepFrom(
                cfg, findPatternDeepFrom(cfg, st, children[i], 1), node, i + 1)

findPatternDeep(cfg, newer, older, doc) ==
    findPatternDeepFrom(
        cfg, [newer |-> newer, older |-> older, doc |-> doc, thrown |-> FALSE,
              visited |-> <<>>],
        Body, 1)

\* A reset that leaves the classes where they are.
resetNothing(doc) == doc

\* resetDetectedPatterns: every element with the detected class loses all the
\* classes that start with the prefix.
resetDetectedPatterns(doc) ==
    [n \in AllSlots |->
        IF doc[n].present /\ patternDetectedClassName \in doc[n].cls
        THEN [doc[n] EXCEPT !.cls = {c \in @ : c.prefix # extensionClassPrefix}]
        ELSE doc[n]]

\* --------------------------------------------------------- result aggregator

elementIsVisible(e) == ~e.hidden

ElementsWithClass(doc, c) ==
    SelectSeq(SlotSeq, LAMBDA n : doc[n].present /\ c \in doc[n].cls)

PhidsOf(doc, s) == [i \in 1..Len(s) |-> doc[s[i]].phid]

\* A result for one pattern that leaves the hidden elements out.
PatternResultVisibleOnly(doc, p) ==
    LET elems == ElementsWithClass(doc, ExtClass(p.className.val))
    IN  [name |-> p.name.val,
         elementsVisible |->
            PhidsOf(doc, SelectSeq(elems, LAMBDA n : elementIsVisible(doc[n]))),
         elementsHidden |-> <<>>]

PatternResult(doc, p) ==
    LET elems == ElementsWithClass(doc, ExtClass(p.className.val))
    IN  [name |-> p.name.val,
         elementsVisible |->
            PhidsOf(doc, SelectSeq(elems, LAMBDA n : elementIsVisible(doc[n]))),
         elementsHidden |->
            PhidsOf(doc, SelectSeq(elems, LAMBDA n : ~elementIsVisible(doc[n])))]

RECURSIVE SumLen(_, _)
SumLen(ps, visibleOnly) ==
    IF ps = <<>> THEN 0
    ELSE Len(Head(ps).elementsVisible)
         + (IF visibleOnly THEN 0 ELSE Len(Head(ps).elementsHidden))
         + SumLen(Tail(ps), visibleOnly)

getPatternsResults(cfg, doc) ==
    LET ps == [i \in 1..Len(cfg) |-> PatternResult(doc, cfg[i])]
    IN  [patterns |-> ps, countVisible |-> SumLen(ps, TRUE),
         count |-> SumLen(ps, FALSE)]

\* --------------------------------------------------------------------- state

VARIABLES
    patternConfig,   \* constants.patternConfig.patterns, fixed when loaded
    initPc,          \* where initPatternHighlighter stands
    lock,            \* this.lock of patternHighlighting
    observing,       \* whether the MutationObserver is connected
    records,         \* whether mutation records wait for the observer callback
    live,            \* the elements under document.body
    counter,         \* this.counter of addPhidForEveryElement
    pc,              \* per invocation of patternHighlighting: the next step
    waitForChanges,  \* per invocation: its argument
    domCopyA,        \* per invocation: the older copy
    domCopyB,        \* per invocation: the newer copy
    lastReport,      \* the results last sent by sendResults
    domChanges,      \* how many changes the document has undergone
    background,          \* which background script the extension is built with
    extensionActivation, \* background.js: the dictionary of that name
    storage,             \* the storage area, by tab (key activation_<tabId>)
    badgeText,           \* the text of the badge, by tab
    pending,             \* the storage requests not yet completed, oldest first
    lastStateEvent,      \* by tab: the last event that concerned its state
    shell,               \* which of the two sync scripts is run
    arguments,           \* the arguments the sync script is run with
    action,              \* the sync script's variable of that name
    syncPc,              \* where the sync script stands
    firefox,             \* the files of the "firefox" folder
    manifest,            \* the copy of the manifest the script keeps
    firefoxBefore,       \* the files of the "firefox" folder before the run
    app,                 \* the popup's ExtensionPopup component
    buttons,             \* the popup's ShowPatternButtons component
    currentTab           \* the tab the popup was opened in

\* The state of the background script.
bgVars ==
    <<background, extensionActivation, storage, badgeText, pending, lastStateEvent>>

\* The state of the content script in one tab.
contentVars ==
    <<patternConfig, initPc, lock, observing, records, live, counter, pc,
      waitForChanges, domCopyA, domCopyB, lastReport, domChanges>>

\* The state of a run of the sync script.
syncVars ==
    <<shell, arguments, action, syncPc, firefox, manifest, firefoxBefore>>

\* The state of the popup.
popupVars == <<app, buttons, currentTab>>

\* What no step of the content script touches.
otherVars == <<bgVars, syncVars, popupVars>>

vars == <<contentVars, otherVars>>

\* No file of that name.
NoFile == [exists |-> FALSE, body |-> "", newlines |-> 0]

\* No sync script is run.
SyncIdle ==
    /\ shell = "sh"
    /\ arguments = <<>>
    /\ action = 1
    /\ syncPc = "exit0"
    /\ firefox = [f \in {"manifest.json"} |-> NoFile]
    /\ manifest = NoFile
    /\ firefoxBefore = firefox

\* activationState
On == 1
Off == 0
PermanentlyOff == -1

\* `{}`, the results of a popup that has received none.
NoResults == [patterns |-> <<>>, countVisible |-> -1, count |-> -1]

\* No popup is open.
PopupClosed ==
    /\ app = [pc |-> "closed", activation |-> Off, initActivation |-> Off,
              results |-> NoResults, refreshing |-> 0]
    /\ buttons = [currentPatternId |-> NoPhid, sending |-> 0, sent |-> NoPhid]
    /\ currentTab = [http |-> TRUE, isEnabled |-> TRUE]

Tabs == 1..MaxTabs

\* The values of message.enableExtension.
Activations == {"true", "false"}

\* The background script at its start: nothing stored, no badge, nothing asked
\* of the storage area.
BackgroundStart ==
    /\ extensionActivation = [t \in Tabs |-> "absent"]
    /\ storage = [t \in Tabs |-> "absent"]
    /\ badgeText = [t \in Tabs |-> ""]
    /\ pending = <<>>
    /\ lastStateEvent = [t \in Tabs |-> "none"]

Invocations == 1..MaxInvocations

NoReport == [patterns |-> <<>>, countVisible |-> -1, count |-> -1]

\* The texts the page writes.
PageTexts ==
    {"hello", "10 available", "3 sold, 5 users bought this item", "00:02", "00:01"}

\* The pages the content script may be injected into: any of the positions
\* filled with an unremarkable visible element.
InitialPages ==
    {t \in [AllSlots -> {AbsentElem, NewElem("div", "hello", FALSE)}] :
        /\ ~t[ShadowSlot].present
        /\ \A n \in PageSlots :
              t[n].present /\ ParentOf(n) # Body => t[ParentOf(n)].present}

Init ==
    /\ patternConfig \in Configs
    /\ initPc = "askActivation"
    /\ lock = FALSE
    /\ observing = FALSE
    /\ records = FALSE
    /\ live \in InitialPages
    /\ counter = 0
    /\ pc = [i \in Invocations |-> "free"]
    /\ waitForChanges = [i \in Invocations |-> FALSE]
    /\ domCopyA = [i \in Invocations |-> EmptyTree]
    /\ domCopyB = [i \in Invocations |-> EmptyTree]
    /\ lastReport = NoReport
    /\ domChanges = 0
    /\ background = "memory"
    /\ BackgroundStart
    /\ SyncIdle
    /\ PopupClosed

\* An invocation is suspended (at an await, finished or not begun): only then
\* does the event loop run another task.
Suspended(i) == pc[i] \in {"free", "debounce", "settle", "rejected"}
AtRest == \A i \in Invocations : Suspended(i)

\* A task other than the observer's microtask starts.
TaskMayStart == AtRest /\ ~records

\* ------------------------------------------------------------ the scheduler

\* A lock test that never finds the lock held.
LockNeverHeld == FALSE

\* `if (this.lock === true) return;`
LockHeld == lock = TRUE

\* The call patternHighlighting(wait) up to `this.lock = true`: dropped when
\* the lock is held, else the lock is taken and the invocation begins.
patternHighlighting(wait) ==
    IF LockHeld
    THEN UNCHANGED <<lock, pc, waitForChanges>>
    ELSE /\ \E i \in Invocations : pc[i] = "free"
         /\ LET i == Min({j \in Invocations : pc[j] = "free"})
            IN  /\ lock' = TRUE
                /\ pc' = [pc EXCEPT ![i] = "disconnect"]
                /\ waitForChanges' = [waitForChanges EXCEPT ![i] = wait]

\* A disconnect() that leaves the observer connected.
ObserverStaysConnected == TRUE

\* What observer.disconnect() leaves of the observation.
ObserverAfterDisconnect == FALSE

\* A disconnect() after which the older copy is taken at once, whoever asked.
DisconnectWithoutWait(i) ==
    /\ pc[i] = "disconnect"
    /\ observing' = ObserverAfterDisconnect
    /\ records' = (records /\ ObserverAfterDisconnect)
    /\ pc' = [pc EXCEPT ![i] = "stampA"]
    /\ UNCHANGED <<patternConfig, initPc, lock, live, counter, waitForChanges,
                   domCopyA, domCopyB, lastReport, domChanges, otherVars>>

\* observer.disconnect(); then the await of the 2000 ms timer when asked for.
Disconnect(i) ==
    /\ pc[i] = "disconnect"
    /\ observing' = ObserverAfterDisconnect
    /\ records' = (records /\ ObserverAfterDisconnect)
    /\ pc' = [pc EXCEPT ![i] = IF waitForChanges[i] = TRUE THEN "debounce"
                                 ELSE "stampA"]
    /\ UNCHANGED <<patternConfig, initPc, lock, live, counter, waitForChanges,
                   domCopyA, domCopyB, lastReport, domChanges, otherVars>>

\* The 2000 ms timer fires.
DebounceTimer(i) ==
    /\ pc[i] = "debounce"
    /\ TaskMayStart
    /\ pc' = [pc EXCEPT ![i] = "stampA"]
    /\ UNCHANGED <<patternConfig, initPc, lock, observing, records, live,
                   counter, waitForChanges, domCopyA, domCopyB, lastReport,
                   domChanges, otherVars>>

\* addPhidForEveryElement(document.body), before either copy.
Stamp(i, at, next) ==
    /\ pc[i] = at
    /\ LET r == addPhidForEveryElement(live, counter)
       IN  live' = r.tree /\ counter' = r.counter
    /\ pc' = [pc EXCEPT ![i] = next]
    /\ UNCHANGED <<patternConfig, initPc, lock, observing, records,
                   waitForChanges, domCopyA, domCopyB, lastReport, domChanges,
                   otherVars>>

StampA(i) == Stamp(i, "stampA", "cloneA")
StampB(i) == Stamp(i, "stampB", "cloneB")

\* document.body.cloneNode(true)
cloneNode(t) == t

CloneA(i) ==
    /\ pc[i] = "cloneA"
    /\ domCopyA' = [domCopyA EXCEPT ![i] = cloneNode(live)]
    /\ pc' = [pc EXCEPT ![i] = "filterA"]
    /\ UNCHANGED <<patternConfig, initPc, lock, observing, records, live,
                   counter, waitForChanges, domCopyB, lastReport, domChanges,
                   otherVars>>

\* A filtering that is applied to the document as well as to the copy.
FilterAOnDocument(i) ==
    /\ pc[i] = "filterA"
    /\ domCopyA' = [domCopyA EXCEPT ![i] = removeBlacklistNodes(@)]
    /\ live' = removeBlacklistNodes(live)
    /\ pc' = [pc EXCEPT ![i] = "settle"]
    /\ UNCHANGED <<patternConfig, initPc, lock, observing, records,
                   counter, waitForChanges, domCopyB, lastReport, domChanges,
                   otherVars>>

FilterA(i) ==
    /\ pc[i] = "filterA"
    /\ domCopyA' = [domCopyA EXCEPT ![i] = removeBlacklistNodes(@)]
    /\ pc' = [pc EXCEPT ![i] = "settle"]
    /\ UNCHANGED <<patternConfig, initPc, lock, observing, records, live,
                   counter, waitForChanges, domCopyB, lastReport, domChanges,
                   otherVars>>

\* The 1536 ms timer fires.
SettleTimer(i) ==
    /\ pc[i] = "settle"
    /\ TaskMayStart
    /\ pc' = [pc EXCEPT ![i] = "stampB"]
    /\ UNCHANGED <<patternConfig, initPc, lock, observing, records, live,
                   counter, waitForChanges, domCopyA, domCopyB, lastReport,
                   domChanges, otherVars>>

CloneB(i) ==
    /\ pc[i] = "cloneB"
    /\ domCopyB' = [domCopyB EXCEPT ![i] = cloneNode(live)]
    /\ pc' = [pc EXCEPT ![i] = "filterB"]
    /\ UNCHANGED <<patternConfig, initPc, lock, observing, records, live,
                   counter, waitForChanges, domCopyA, lastReport, domChanges,
                   otherVars>>

FilterB(i) ==
    /\ pc[i] = "filterB"
    /\ domCopyB' = [domCopyB EXCEPT ![i] = removeBlacklistNodes(@)]
    /\ pc' = [pc EXCEPT ![i] = "reset"]
    /\ UNCHANGED <<patternConfig, initPc, lock, observing, records, live,
                   counter, waitForChanges, domCopyA, lastReport, domChanges,
                   otherVars>>

Reset(i) ==
    /\ pc[i] = "reset"
    /\ live' = resetDetectedPatterns(live)
    /\ pc' = [pc EXCEPT ![i] = "classify"]
    /\ UNCHANGED <<patternConfig, initPc, lock, observing, records, counter,
                   waitForChanges, domCopyA, domCopyB, lastReport, domChanges,
                   otherVars>>

\* findPatternDeep(domCopyB, domCopyA).  An exception of a detection function
\* leaves findPatternDeep and patternHighlighting (neither catches): the
\* promise is rejected, and so is that of initPatternHighlighter when it
\* awaits this invocation.
Classify(i) ==
    /\ pc[i] = "classify"
    /\ LET r == findPatternDeep(patternConfig, domCopyB[i], domCopyA[i], live)
       IN  /\ live' = r.doc
           /\ IF r.thrown
              THEN /\ pc' = [pc EXCEPT ![i] = "rejected"]
                   /\ domCopyA' = [domCopyA EXCEPT ![i] = EmptyTree]
                   /\ domCopyB' = [domCopyB EXCEPT ![i] = EmptyTree]
                   /\ initPc' = IF initPc = "firstPass" THEN "failed" ELSE initPc
              ELSE /\ pc' = [pc EXCEPT ![i] = "destroy"]
                   /\ domCopyA' = [domCopyA EXCEPT ![i] = r.older]
                   /\ domCopyB' = [domCopyB EXCEPT ![i] = r.newer]
                   /\ initPc' = initPc
    /\ UNCHANGED <<patternConfig, lock, observing, records, counter,
                   waitForChanges, lastReport, domChanges, otherVars>>

\* domCopyA.replaceChildren(); domCopyA = null; and the same for domCopyB.
Destroy(i) ==
    /\ pc[i] = "destroy"
    /\ domCopyA' = [domCopyA EXCEPT ![i] = EmptyTree]
    /\ domCopyB' = [domCopyB EXCEPT ![i] = EmptyTree]
    /\ pc' = [pc EXCEPT ![i] = "send"]
    /\ UNCHANGED <<patternConfig, initPc, lock, observing, records, live,
                   counter, waitForChanges, lastReport, domChanges, otherVars>>

\* sendResults()
Send(i) ==
    /\ pc[i] = "send"
    /\ lastReport' = getPatternsResults(patternConfig, live)
    /\ pc' = [pc EXCEPT ![i] = "observe"]
    /\ UNCHANGED <<patternConfig, initPc, lock, observing, records, live,
                   counter, waitForChanges, domCopyA, domCopyB, domChanges,
                   otherVars>>

\* observer.observe(document.body, {subtree, childList, attributes, characterData})
Observe(i) ==
    /\ pc[i] = "observe"
    /\ observing' = TRUE
    /\ pc' = [pc EXCEPT ![i] = "unlock"]
    /\ UNCHANGED <<patternConfig, initPc, lock, records, live, counter,
                   waitForChanges, domCopyA, domCopyB, lastReport, domChanges,
                   otherVars>>

\* this.lock = false; the invocation returns, and initPatternHighlighter,
\* when it awaited this invocation, adds the message listener.
Unlock(i) ==
    /\ pc[i] = "unlock"
    /\ lock' = FALSE
    /\ pc' = [pc EXCEPT ![i] = "free"]
    /\ initPc' = IF initPc = "firstPass" THEN "listening" ELSE initPc
    /\ UNCHANGED <<patternConfig, observing, records, live, counter,
                   waitForChanges, domCopyA, domCopyB, lastReport, domChanges,
                   otherVars>>

\* ------------------------------------------------------------ initialisation

\* An initialisation that goes on whatever the background answers.
InitActivationReplyIgnored(isEnabled) ==
    /\ initPc = "askActivation"
    /\ TaskMayStart
    /\ initPc' = "importing"
    /\ UNCHANGED <<patternConfig, lock, observing, records, live, counter, pc,
                   waitForChanges, domCopyA, domCopyB, lastReport, domChanges,
                   otherVars>>

\* The background answers getActivationState.
InitActivationReply(isEnabled) ==
    /\ initPc = "askActivation"
    /\ TaskMayStart
    /\ initPc' = IF isEnabled = TRUE THEN "importing" ELSE "disabled"
    /\ UNCHANGED <<patternConfig, lock, observing, records, live, counter, pc,
                   waitForChanges, domCopyA, domCopyB, lastReport, domChanges,
                   otherVars>>

\* A validity flag that is not consulted.
ConfigTakenAsValid == TRUE

\* constants.patternConfigIsValid
patternConfigIsValid == validatePatternConfig(patternConfig)

\* The import of constants.js resolves: an invalid configuration ends the
\* initialisation, a valid one starts the first pass.
InitImported ==
    /\ initPc = "importing"
    /\ TaskMayStart
    /\ IF ~patternConfigIsValid
       THEN /\ initPc' = "invalid"
            /\ UNCHANGED <<lock, pc, waitForChanges, otherVars>>
       ELSE /\ initPc' = "firstPass"
            /\ patternHighlighting(FALSE)
    /\ UNCHANGED <<patternConfig, observing, records, live, counter, domCopyA,
                   domCopyB, lastReport, domChanges, otherVars>>

\* ------------------------------------------------------- observer and popup

\* The MutationObserver callback: patternHighlighting(true).
ObserverCallback ==
    /\ records
    /\ AtRest
    /\ records' = FALSE
    /\ patternHighlighting(TRUE)
    /\ UNCHANGED <<patternConfig, initPc, observing, live, counter, domCopyA,
                   domCopyB, lastReport, domChanges, otherVars>>

\* The listener is added after the first pass.
Listening == initPc = "listening"

\* message.action === "redoPatternHighlighting"
OnMessageRedo ==
    /\ Listening
    /\ TaskMayStart
    /\ patternHighlighting(FALSE)
    /\ UNCHANGED <<patternConfig, initPc, observing, records, live, counter,
                   domCopyA, domCopyB, lastReport, domChanges, otherVars>>

\* An answer read from the report last sent.
StoredReport == lastReport

\* message.action === "getPatternCount": the response is
\* getPatternsResults(), computed from the live tree; nothing is written.
GetPatternCountResponse == getPatternsResults(patternConfig, live)

OnMessageGetPatternCount ==
    /\ Listening
    /\ TaskMayStart
    /\ UNCHANGED vars

\* A showElement without the test of `elem == null`: the shadow element is
\* appended whether or not the element was found.
showElementUnguarded(t, phid) ==
    [n \in AllSlots |->
        IF n = ShadowSlot
        THEN [NewElem("div", "", FALSE) EXCEPT !.cls = {currentPatternClassName}]
        ELSE IF t[n].present /\ currentPatternClassName \in t[n].cls
             THEN AbsentElem ELSE t[n]]

\* showElement(phid): the old shadow element is removed, and when the element
\* is found a new shadow element is appended to the body.
showElement(t, phid) ==
    LET cleared == [n \in AllSlots |->
                      IF t[n].present /\ currentPatternClassName \in t[n].cls
                      THEN AbsentElem ELSE t[n]]
        elem == getElementByPhid(cleared, phid)
    IN  IF elem = Null THEN cleared
        ELSE [cleared EXCEPT ![ShadowSlot] =
                [NewElem("div", "", FALSE) EXCEPT !.cls = {currentPatternClassName}]]

OnMessageShowElement(phid) ==
    /\ Listening
    /\ TaskMayStart
    /\ live' = showElement(live, phid)
    /\ live' # live => domChanges < MaxDomChanges
    /\ records' = (observing /\ live' # live)
    /\ domChanges' = IF live' # live THEN domChanges + 1 ELSE domChanges
    /\ UNCHANGED <<patternConfig, initPc, lock, observing, counter, pc,
                   waitForChanges, domCopyA, domCopyB, lastReport, otherVars>>

\* ------------------------------------------------------------------ the page

\* The page's own scripts run as tasks of their own.  A change is recorded for
\* the observer when it is connected.
\* The scripts write texts and insert and remove elements of their own making:
\* they write neither data-phid attributes nor the extension's classes.
PageMayChange == TaskMayStart /\ domChanges < MaxDomChanges

PageSetText(n, txt) ==
    /\ PageMayChange
    /\ live[n].present /\ live[n].text # txt
    /\ live' = [live EXCEPT ![n].text = txt]
    /\ records' = observing
    /\ domChanges' = domChanges + 1
    /\ UNCHANGED <<patternConfig, initPc, lock, observing, counter, pc,
                   waitForChanges, domCopyA, domCopyB, lastReport, otherVars>>

PageInsert(n, e) ==
    /\ PageMayChange
    /\ ~live[n].present
    /\ ParentOf(n) # Body => live[ParentOf(n)].present
    /\ live' = [live EXCEPT ![n] = e]
    /\ records' = observing
    /\ domChanges' = domChanges + 1
    /\ UNCHANGED <<patternConfig, initPc, lock, observing, counter, pc,
                   waitForChanges, domCopyA, domCopyB, lastReport, otherVars>>

PageRemove(n) ==
    /\ PageMayChange
    /\ live[n].present
    /\ live' = RemoveNode(live, n)
    /\ records' = observing
    /\ domChanges' = domChanges + 1
    /\ UNCHANGED <<patternConfig, initPc, lock, observing, counter, pc,
                   waitForChanges, domCopyA, domCopyB, lastReport, otherVars>>

\* The elements the page creates: visible or hidden elements with a text, and
\* a script.
PageElements ==
    {NewElem("div", txt, FALSE) : txt \in PageTexts}
        \cup {NewElem("div", "10 available", TRUE),
              NewElem("script", "10 available", FALSE)}

PageChange ==
    \/ \E n \in PageSlots, txt \in PageTexts : PageSetText(n, txt)
    \/ \E n \in PageSlots, e \in PageElements : PageInsert(n, e)
    \/ \E n \in PageSlots : PageRemove(n)

PassStep ==
    \E i \in Invocations :
        \/ Disconnect(i) \/ DebounceTimer(i)
        \/ StampA(i) \/ CloneA(i) \/ FilterA(i) \/ SettleTimer(i)
        \/ StampB(i) \/ CloneB(i) \/ FilterB(i)
        \/ Reset(i) \/ Classify(i) \/ Destroy(i) \/ Send(i)
        \/ Observe(i) \/ Unlock(i)

Next ==
    \/ \E b \in BOOLEAN : InitActivationReply(b)
    \/ InitImported
    \/ PassStep
    \/ ObserverCallback
    \/ OnMessageRedo
    \/ OnMessageGetPatternCount
    \/ \E phid \in 0..counter : OnMessageShowElement(phid)
    \/ PageChange

Spec == Init /\ [][Next]_vars

\* ------------------------------------------------------ the background script

\* "" + count for a reported count.
CountText(count) ==
    CASE count = 0 -> "0"
      [] count = 1 -> "1"
      [] OTHER -> "many"

\* displayPatternCount(count, tabId): browser.action.setBadgeText.
displayPatternCount(badge, text, tabId) == [badge EXCEPT ![tabId] = text]

\* ---- background.js: the activation states are kept in a dictionary and every
\* ---- handler runs to its end in one task.
\* "countVisible" in message
OnCountVisible(tabId, countVisible) ==
    /\ background = "memory"
    /\ badgeText' = IF ~(extensionActivation[tabId] = "false")
                    THEN displayPatternCount(badgeText, CountText(countVisible), tabId)
                    ELSE badgeText
    /\ UNCHANGED <<contentVars, syncVars, popupVars, background, extensionActivation, storage,
                   pending, lastStateEvent>>

\* "enableExtension" in message && "tabId" in message
OnEnableExtension(tabId, enableExtension) ==
    /\ background = "memory"
    /\ extensionActivation' = [extensionActivation EXCEPT ![tabId] = enableExtension]
    /\ badgeText' = IF enableExtension = "false"
                    THEN displayPatternCount(badgeText, "", tabId)
                    ELSE badgeText
    /\ lastStateEvent' = [lastStateEvent EXCEPT ![tabId] = enableExtension]
    /\ UNCHANGED <<contentVars, syncVars, popupVars, background, storage, pending>>

\* message.action == "getActivationState": a tab without a state is given
\* `true`; the response is { isEnabled: extensionActivation[tabId] }.
OnGetActivationState(tabId) ==
    /\ background = "memory"
    /\ extensionActivation' =
          IF extensionActivation[tabId] = "absent"
          THEN [extensionActivation EXCEPT ![tabId] = "true"]
          ELSE extensionActivation
    /\ UNCHANGED <<contentVars, syncVars, popupVars, background, storage, badgeText, pending,
                   lastStateEvent>>

\* tabs.onReplaced: extensionActivation[addedTabId] =
\* extensionActivation[removedTabId], which is `undefined` when the removed
\* tab has no state; then the key of the removed tab is deleted.
OnReplaced(addedTabId, removedTabId) ==
    /\ background = "memory"
    /\ addedTabId # removedTabId
    /\ extensionActivation' =
          [extensionActivation EXCEPT
              ![addedTabId] = IF extensionActivation[removedTabId] = "absent"
                              THEN "undefined"
                              ELSE extensionActivation[removedTabId],
              ![removedTabId] = "absent"]
    /\ lastStateEvent' = [lastStateEvent EXCEPT ![addedTabId] = "replaced",
                                                ![removedTabId] = "none"]
    /\ UNCHANGED <<contentVars, syncVars, popupVars, background, storage, badgeText, pending>>

\* tabs.onRemoved
OnRemoved(tabId) ==
    /\ background = "memory"
    /\ extensionActivation' = [extensionActivation EXCEPT ![tabId] = "absent"]
    /\ lastStateEvent' = [lastStateEvent EXCEPT ![tabId] = "none"]
    /\ UNCHANGED <<contentVars, syncVars, popupVars, background, storage, badgeText, pending>>

\* ---- the background script that keeps the activation states in the storage
\* ---- area: every handler asks the storage area and goes on when the request
\* ---- has completed.  The storage area carries the requests out in the order
\* ---- in which they were made and completes them in that order, so a request
\* ---- takes effect when it is made and `pending` holds what is still to go on.
\* getActivation(tabId): Object.values(await storage.get(key))[0]
getActivation(tabId) ==
    IF storage[tabId] = "absent" THEN "undefined" ELSE storage[tabId]

\* setActivation(tabId, activation): storage.set({[key]: activation}); a
\* property whose value is `undefined` is not stored.
setActivation(st, tabId, activation) ==
    IF activation = "undefined" THEN st ELSE [st EXCEPT ![tabId] = activation]

\* removeActivation(tabId): storage.remove(key)
removeActivation(st, tabId) == [st EXCEPT ![tabId] = "absent"]

\* A request to the storage area with what its continuation will need.
Request(kind, tabId, activation, text, other) ==
    [kind |-> kind, tabId |-> tabId, activation |-> activation, text |-> text,
     other |-> other]

Completes(kind) == background = "stored" /\ pending # <<>> /\ Head(pending).kind = kind

\* "countVisible" in message: getActivation(sender.tab.id) is asked for.
StoredOnCountVisible(tabId, countVisible) ==
    /\ background = "stored" /\ Len(pending) < MaxPending
    /\ pending' = Append(pending, Request("countVisible", tabId, getActivation(tabId),
                                          CountText(countVisible), tabId))
    /\ UNCHANGED <<contentVars, syncVars, popupVars, background, extensionActivation, storage,
                   badgeText, lastStateEvent>>

\* .then((activation) => { if (activation === true) displayPatternCount(...) })
StoredCountVisibleThen ==
    /\ Completes("countVisible")
    /\ badgeText' = IF Head(pending).activation = "true"
                    THEN displayPatternCount(badgeText, Head(pending).text,
                                             Head(pending).tabId)
                    ELSE badgeText
    /\ pending' = Tail(pending)
    /\ UNCHANGED <<contentVars, syncVars, popupVars, background, extensionActivation, storage,
                   lastStateEvent>>

\* "enableExtension" in message: setActivation(message.tabId, ...) is asked for.
StoredOnEnableExtension(tabId, enableExtension) ==
    /\ background = "stored" /\ Len(pending) < MaxPending
    /\ storage' = setActivation(storage, tabId, enableExtension)
    /\ pending' = Append(pending, Request("enableExtension", tabId, enableExtension,
                                          "", tabId))
    /\ lastStateEvent' = [lastStateEvent EXCEPT ![tabId] = enableExtension]
    /\ UNCHANGED <<contentVars, syncVars, popupVars, background, extensionActivation, badgeText>>

\* .then(() => { if (message.enableExtension === false) displayPatternCount("", ...) })
StoredEnableExtensionThen ==
    /\ Completes("enableExtension")
    /\ badgeText' = IF Head(pending).activation = "false"
                    THEN displayPatternCount(badgeText, "", Head(pending).tabId)
                    ELSE badgeText
    /\ pending' = Tail(pending)
    /\ UNCHANGED <<contentVars, syncVars, popupVars, background, extensionActivation, storage,
                   lastStateEvent>>

\* message.action == "getActivationState": getActivationOrSetDefault(tabId)
\* up to its first await.
StoredOnGetActivationState(tabId) ==
    /\ background = "stored" /\ Len(pending) < MaxPending
    /\ pending' = Append(pending, Request("getActivation", tabId,
                                          getActivation(tabId), "", tabId))
    /\ UNCHANGED <<contentVars, syncVars, popupVars, background, extensionActivation, storage,
                   badgeText, lastStateEvent>>

\* getActivationOrSetDefault after getActivation: when the state read is
\* `undefined`, `true` is stored; otherwise the state read is the response.
StoredGetActivationThen ==
    /\ Completes("getActivation")
    /\ IF Head(pending).activation = "undefined"
       THEN /\ storage' = setActivation(storage, Head(pending).tabId, "true")
            /\ pending' = Append(Tail(pending),
                                 Request("setDefault", Head(pending).tabId, "true",
                                         "", Head(pending).tabId))
       ELSE /\ storage' = storage
            /\ pending' = Tail(pending)
    /\ UNCHANGED <<contentVars, syncVars, popupVars, background, extensionActivation, badgeText,
                   lastStateEvent>>

\* getActivationOrSetDefault after setActivation: the response is
\* { isEnabled: true }.
StoredSetDefaultThen ==
    /\ Completes("setDefault")
    /\ pending' = Tail(pending)
    /\ UNCHANGED <<contentVars, syncVars, popupVars, background, extensionActivation, storage,
                   badgeText, lastStateEvent>>

\* tabs.onReplaced up to its first await: getActivation(removedTabId).
StoredOnReplaced(addedTabId, removedTabId) ==
    /\ background = "stored" /\ Len(pending) < MaxPending
    /\ addedTabId # removedTabId
    /\ pending' = Append(pending, Request("replacedGet", addedTabId,
                                          getActivation(removedTabId), "",
                                          removedTabId))
    /\ lastStateEvent' = [lastStateEvent EXCEPT ![addedTabId] = "replaced",
                                                ![removedTabId] = "replaced"]
    /\ UNCHANGED <<contentVars, syncVars, popupVars, background, extensionActivation, storage,
                   badgeText>>

\* await setActivation(addedTabId, <the state read>)
StoredReplacedGetThen ==
    /\ Completes("replacedGet")
    /\ storage' = setActivation(storage, Head(pending).tabId, Head(pending).activation)
    /\ pending' = Append(Tail(pending),
                         Request("replacedSet", Head(pending).tabId,
                                 Head(pending).activation, "", Head(pending).other))
    /\ lastStateEvent' = [lastStateEvent EXCEPT ![Head(pending).tabId] = "replaced"]
    /\ UNCHANGED <<contentVars, syncVars, popupVars, background, extensionActivation, badgeText>>

\* await removeActivation(removedTabId)
StoredReplacedSetThen ==
    /\ Completes("replacedSet")
    /\ storage' = removeActivation(storage, Head(pending).other)
    /\ pending' = Tail(pending)
    /\ lastStateEvent' = [lastStateEvent EXCEPT ![Head(pending).other] = "none"]
    /\ UNCHANGED <<contentVars, syncVars, popupVars, background, extensionActivation, badgeText>>

\* tabs.onRemoved: removeActivation(tabId)
StoredOnRemoved(tabId) ==
    /\ background = "stored"
    /\ storage' = removeActivation(storage, tabId)
    /\ lastStateEvent' = [lastStateEvent EXCEPT ![tabId] = "none"]
    /\ UNCHANGED <<contentVars, syncVars, popupVars, background, extensionActivation, badgeText,
                   pending>>

\* The response { isEnabled: ... } that a getActivationState message for the
\* tab is given when it arrives now.
GetActivationStateResponse(tabId) ==
    IF background = "memory"
    THEN IF extensionActivation[tabId] = "absent" THEN "true"
         ELSE extensionActivation[tabId]
    ELSE IF getActivation(tabId) = "undefined" THEN "true"
         ELSE getActivation(tabId)

\* The background script of either build with its messages and tab events;
\* the content script of the model takes no step.
InitBackground ==
    /\ patternConfig = ShippedConfig
    /\ initPc = "askActivation"
    /\ lock = FALSE
    /\ observing = FALSE
    /\ records = FALSE
    /\ live = EmptyTree
    /\ counter = 0
    /\ pc = [i \in Invocations |-> "free"]
    /\ waitForChanges = [i \in Invocations |-> FALSE]
    /\ domCopyA = [i \in Invocations |-> EmptyTree]
    /\ domCopyB = [i \in Invocations |-> EmptyTree]
    /\ lastReport = NoReport
    /\ domChanges = 0
    /\ background \in {"memory", "stored"}
    /\ BackgroundStart
    /\ SyncIdle
    /\ PopupClosed

NextBackground ==
    \/ \E tabId \in Tabs, n \in 0..MaxCount : OnCountVisible(tabId, n)
    \/ \E tabId \in Tabs, v \in Activations : OnEnableExtension(tabId, v)
    \/ \E tabId \in Tabs : OnGetActivationState(tabId)
    \/ \E a, r \in Tabs : OnReplaced(a, r)
    \/ \E tabId \in Tabs : OnRemoved(tabId)
    \/ \E tabId \in Tabs, n \in 0..MaxCount : StoredOnCountVisible(tabId, n)
    \/ StoredCountVisibleThen
    \/ \E tabId \in Tabs, v \in Activations : StoredOnEnableExtension(tabId, v)
    \/ StoredEnableExtensionThen
    \/ \E tabId \in Tabs : StoredOnGetActivationState(tabId)
    \/ StoredGetActivationThen
    \/ StoredSetDefaultThen
    \/ \E a, r \in Tabs : StoredOnReplaced(a, r)
    \/ StoredReplacedGetThen
    \/ StoredReplacedSetThen
    \/ \E tabId \in Tabs : StoredOnRemoved(tabId)

SpecBackground == InitBackground /\ [][NextBackground]_vars

\* ------------------------------------------------------------ the sync script

\* A file: the text up to its last line's end, and the number of newline
\* characters that follow it.
File(body, newlines) == [exists |-> TRUE, body |-> body, newlines |-> newlines]

ManifestName == "manifest.json"
FileNames == {ManifestName, "background.js", "old.js"}

\* The "chrome" folder: its own manifest and a script.
chrome ==
    [f \in FileNames |->
        CASE f = ManifestName -> File("chrome manifest", 1)
          [] f = "background.js" -> File("background", 1)
          [] OTHER -> NoFile]

\* The "firefox" folders a run may find: with or without a manifest, whose
\* text ends in any number of newlines; with or without an up-to-date or a
\* stale copy of a chrome file; with or without a file of its own.
FirefoxFolders ==
    {d \in [FileNames -> {NoFile} \cup {File(b, k) :
                             b \in {"firefox manifest", "background", "stale", "old"},
                             k \in 0..MaxNewlines}] :
        /\ d[ManifestName].exists => d[ManifestName].body = "firefox manifest"
        /\ d["background.js"].exists =>
              /\ d["background.js"].body \in {"background", "stale"}
              /\ d["background.js"].newlines = 1
        /\ d["old.js"].exists =>
              d["old.js"].body = "old" /\ d["old.js"].newlines = 1}

CleanFlags(sh) ==
    IF sh = "sh" THEN {"-c", "--clean"} ELSE {"-c", "/c", "--clean", "/clean"}
HelpFlags(sh) ==
    IF sh = "sh" THEN {"-h", "--help"}
    ELSE {"-h", "/h", "--help", "/help", "-?", "/?"}

\* The loop over the arguments: the last flag decides the action.
RECURSIVE ActionOf(_, _, _, _)
ActionOf(sh, args, i, act) ==
    IF i > Len(args) THEN act
    ELSE IF args[i] \in CleanFlags(sh) THEN ActionOf(sh, args, i + 1, 2)
    ELSE IF args[i] \in HelpFlags(sh) THEN ActionOf(sh, args, i + 1, 3)
    ELSE ActionOf(sh, args, i + 1, act)

\* The arguments are read; an unexpected one ends the run with an error.
SyncArguments ==
    /\ syncPc = "arguments"
    /\ action' = ActionOf(shell, arguments, 1, action)
    /\ syncPc' = IF \E i \in 1..Len(arguments) :
                         arguments[i] \notin CleanFlags(shell) \cup HelpFlags(shell)
                 THEN "exit1"
                 ELSE IF action' = 3 THEN "help"
                 ELSE "save"
    /\ UNCHANGED <<contentVars, bgVars, popupVars, shell, arguments, firefox, manifest,
                   firefoxBefore>>

\* The manual is displayed.
SyncHelp ==
    /\ syncPc = "help"
    /\ syncPc' = "exit0"
    /\ UNCHANGED <<contentVars, bgVars, popupVars, shell, arguments, action, firefox,
                   manifest, firefoxBefore>>

\* manifest=$(cat "$manifest_file"): the command substitution drops every
\* newline at the end of the text; a missing file leaves the variable empty.
ShSaveManifest ==
    /\ shell = "sh" /\ syncPc = "save"
    /\ manifest' = File(firefox[ManifestName].body, 0)
    /\ syncPc' = "empty"
    /\ UNCHANGED <<contentVars, bgVars, popupVars, shell, arguments, action, firefox,
                   firefoxBefore>>

\* copy %manifest_file% %manifest_backup%: a copy of the file as it is; a
\* missing file leaves no backup.
BatSaveManifest ==
    /\ shell = "bat" /\ syncPc = "save"
    /\ manifest' = firefox[ManifestName]
    /\ syncPc' = "empty"
    /\ UNCHANGED <<contentVars, bgVars, popupVars, shell, arguments, action, firefox,
                   firefoxBefore>>

\* rm -rf firefox/; mkdir firefox/ and rmdir firefox\ /s /q; md firefox\
SyncEmptyFolder ==
    /\ syncPc = "empty"
    /\ firefox' = [f \in FileNames |-> NoFile]
    /\ syncPc' = IF shell = "bat" /\ action = 1 THEN "copy" ELSE "restore"
    /\ UNCHANGED <<contentVars, bgVars, popupVars, shell, arguments, action, manifest,
                   firefoxBefore>>

\* printf "%s\n" "$manifest" >"$manifest_file": the text kept and one newline.
ShRestoreManifest ==
    /\ shell = "sh" /\ syncPc = "restore"
    /\ firefox' = [firefox EXCEPT ![ManifestName] = File(manifest.body, 1)]
    /\ syncPc' = IF action = 1 THEN "copy" ELSE "exit0"
    /\ UNCHANGED <<contentVars, bgVars, popupVars, shell, arguments, action, manifest,
                   firefoxBefore>>

\* cp -r -n chrome/. firefox/. : the files that "firefox" does not have.
ShCopy ==
    /\ shell = "sh" /\ syncPc = "copy"
    /\ firefox' = [f \in FileNames |->
                     IF firefox[f].exists THEN firefox[f] ELSE chrome[f]]
    /\ syncPc' = "exit0"
    /\ UNCHANGED <<contentVars, bgVars, popupVars, shell, arguments, action, manifest,
                   firefoxBefore>>

\* xcopy /s /e /y chrome\* firefox\* : every file of "chrome".
BatCopy ==
    /\ shell = "bat" /\ syncPc = "copy"
    /\ firefox' = [f \in FileNames |->
                     IF chrome[f].exists THEN chrome[f] ELSE firefox[f]]
    /\ syncPc' = "restore"
    /\ UNCHANGED <<contentVars, bgVars, popupVars, shell, arguments, action, manifest,
                   firefoxBefore>>

\* copy %manifest_backup% %manifest_file%; del %manifest_backup%
BatRestoreManifest ==
    /\ shell = "bat" /\ syncPc = "restore"
    /\ firefox' = IF manifest.exists
                  THEN [firefox EXCEPT ![ManifestName] = manifest]
                  ELSE firefox
    /\ manifest' = NoFile
    /\ syncPc' = "exit0"
    /\ UNCHANGED <<contentVars, bgVars, popupVars, shell, arguments, action, firefoxBefore>>

\* A run of either sync script on a "firefox" folder; the extension takes no
\* step.
InitSync ==
    /\ patternConfig = ShippedConfig
    /\ initPc = "askActivation"
    /\ lock = FALSE
    /\ observing = FALSE
    /\ records = FALSE
    /\ live = EmptyTree
    /\ counter = 0
    /\ pc = [i \in Invocations |-> "free"]
    /\ waitForChanges = [i \in Invocations |-> FALSE]
    /\ domCopyA = [i \in Invocations |-> EmptyTree]
    /\ domCopyB = [i \in Invocations |-> EmptyTree]
    /\ lastReport = NoReport
    /\ domChanges = 0
    /\ background = "memory"
    /\ BackgroundStart
    /\ shell \in {"sh", "bat"}
    /\ arguments \in {<<>>, <<"-c">>, <<"--clean">>, <<"/c">>, <<"-h">>, <<"-x">>,
                      <<"-c", "-h">>}
    /\ action = 1
    /\ syncPc = "arguments"
    /\ firefox \in FirefoxFolders
    /\ manifest = NoFile
    /\ firefoxBefore = firefox
    /\ PopupClosed

NextSync ==
    \/ SyncArguments
    \/ SyncHelp
    \/ ShSaveManifest
    \/ BatSaveManifest
    \/ SyncEmptyFolder
    \/ ShRestoreManifest
    \/ ShCopy
    \/ BatCopy
    \/ BatRestoreManifest

SpecSync == InitSync /\ [][NextSync]_vars

\* ------------------------------------------------------------------ the popup

\* The reports the popup may receive: the visible elements of two patterns,
\* the same identifier possibly under both.
PopupReports ==
    {[patterns |->
         << [name |-> "Countdown", elementsVisible |-> v1, elementsHidden |-> <<>>],
            [name |-> "Scarcity", elementsVisible |-> v2, elementsHidden |-> <<>>] >>,
      countVisible |-> Len(v1) + Len(v2),
      count |-> Len(v1) + Len(v2)] :
        v1 \in {<<>>, <<0>>, <<0, 1>>}, v2 \in {<<>>, <<2>>, <<1, 2>>}}

\* extractVisiblePatterns: the visible elements of all patterns, in the order
\* of the report.
extractVisiblePatterns(results) ==
    LET ps == results.patterns
        upTo[k \in 0..Len(ps)] ==
            IF k = 0 THEN <<>>
            ELSE upTo[k - 1] \o
                 [j \in 1..Len(ps[k].elementsVisible) |->
                     [phid |-> ps[k].elementsVisible[j], patternName |-> ps[k].name]]
    IN  upTo[Len(ps)]

\* An index lookup that finds nothing.
getIndexNotFound(visiblePatterns, phid) == -1

\* getIndexOfPatternId: Array.prototype.indexOf on the identifiers, counted
\* from 0, -1 when absent.
getIndexOfPatternId(visiblePatterns, phid) ==
    LET at == {k \in 1..Len(visiblePatterns) : visiblePatterns[k].phid = phid}
    IN  IF at = {} THEN -1 ELSE Min(at) - 1

\* The index showPattern(step) arrives at.  `!this._currentPatternId` is true
\* when nothing is selected: an identifier is a non-empty string, "0" too.
showPatternIndex(visiblePatterns, currentPatternId, step) ==
    LET found == getIndexOfPatternId(visiblePatterns, currentPatternId)
        idx == IF currentPatternId = NoPhid
               THEN (IF step > 0 THEN 0 ELSE Len(visiblePatterns) - 1)
               ELSE IF found = -1 THEN 0 ELSE found + step
    IN  IF idx >= Len(visiblePatterns) THEN 0
        ELSE IF idx < 0 THEN Len(visiblePatterns) - 1
        ELSE idx

\* ExtensionPopup.render: the refresh button is not hidden.
RefreshButtonShown == app.activation # app.initActivation

\* ShowPatternButtons.render: the two buttons are there.
ShowPatternButtonsShown ==
    app.initActivation = On /\ app.results.countVisible \notin {0, -1}

\* firstUpdated up to its first await: it runs with the first rendering, in
\* the task that constructs the popup, before any event is handled.
FirstUpdated ==
    /\ app.pc = "firstUpdated"
    /\ app' = [app EXCEPT !.pc = IF app.activation = PermanentlyOff THEN "done"
                                  ELSE "getCurrentTab"]
    /\ UNCHANGED <<contentVars, bgVars, syncVars, buttons, currentTab>>

\* getCurrentTab() resolves: a page not loaded with HTTP(S) ends firstUpdated.
FirstUpdatedTab ==
    /\ app.pc = "getCurrentTab"
    /\ app' = IF currentTab.http
              THEN [app EXCEPT !.pc = "getActivationState"]
              ELSE [app EXCEPT !.activation = PermanentlyOff,
                               !.initActivation = PermanentlyOff,
                               !.pc = "done"]
    /\ UNCHANGED <<contentVars, bgVars, syncVars, buttons, currentTab>>

\* The background answers getActivationState.
FirstUpdatedActivation ==
    /\ app.pc = "getActivationState"
    /\ app' = IF currentTab.isEnabled
              THEN [app EXCEPT !.activation = On, !.pc = "getPatternCount"]
              ELSE [app EXCEPT !.initActivation = app.activation, !.pc = "done"]
    /\ UNCHANGED <<contentVars, bgVars, syncVars, buttons, currentTab>>

\* The content script answers getPatternCount (after however many failed
\* requests), and firstUpdated ends.
FirstUpdatedResults(results) ==
    /\ app.pc = "getPatternCount"
    /\ app' = [app EXCEPT !.results = results,
                          !.initActivation = app.activation,
                          !.pc = "done"]
    /\ UNCHANGED <<contentVars, bgVars, syncVars, buttons, currentTab>>

\* handleMessage: the results sent by the content script of the tab.
handleMessage(message) ==
    /\ app.pc \notin {"closed", "firstUpdated"}
    /\ app' = [app EXCEPT !.results = message]
    /\ UNCHANGED <<contentVars, bgVars, syncVars, buttons, currentTab>>

\* OnOffSwitch.changeActivation
changeActivation ==
    /\ app.pc \notin {"closed", "firstUpdated"}
    /\ app' = IF app.activation # PermanentlyOff
              THEN [app EXCEPT !.activation = IF app.activation = Off THEN On
                                              ELSE Off]
              ELSE app
    /\ UNCHANGED <<contentVars, bgVars, syncVars, buttons, currentTab>>

\* RefreshButton.refreshTab up to its awaits: the message with the activation
\* as it is now goes to the background, and the tab is reloaded.
refreshTab ==
    /\ RefreshButtonShown
    /\ app.refreshing < MaxRefreshing
    /\ app' = [app EXCEPT !.refreshing = @ + 1]
    /\ currentTab' = [currentTab EXCEPT !.isEnabled = (app.activation = On)]
    /\ UNCHANGED <<contentVars, bgVars, syncVars, buttons>>

\* refreshTab after its awaits: `this.app.initActivation = this.app.activation`.
refreshTabThen ==
    /\ app.refreshing > 0
    /\ app' = [app EXCEPT !.initActivation = app.activation, !.refreshing = @ - 1]
    /\ UNCHANGED <<contentVars, bgVars, syncVars, buttons, currentTab>>

\* showPattern(step) up to its await.
showPattern(step) ==
    /\ ShowPatternButtonsShown
    /\ buttons.sending < MaxSending
    /\ LET visiblePatterns == extractVisiblePatterns(app.results)
           idx == showPatternIndex(visiblePatterns, buttons.currentPatternId, step)
       IN  buttons' = [buttons EXCEPT
                          !.currentPatternId = visiblePatterns[idx + 1].phid,
                          !.sending = @ + 1]
    /\ UNCHANGED <<contentVars, bgVars, syncVars, app, currentTab>>

\* showPattern after getCurrentTab(): the message is made and sent.
showPatternThen ==
    /\ buttons.sending > 0
    /\ buttons' = [buttons EXCEPT !.sent = buttons.currentPatternId,
                                  !.sending = @ - 1]
    /\ UNCHANGED <<contentVars, bgVars, syncVars, app, currentTab>>

\* The popup is opened in a tab: the constructor has run.  The content script
\* of the tab is not followed.
InitPopup ==
    /\ patternConfig \in {ShippedConfig, DuplicateNameConfig}
    /\ initPc = "askActivation"
    /\ lock = FALSE
    /\ observing = FALSE
    /\ records = FALSE
    /\ live = EmptyTree
    /\ counter = 0
    /\ pc = [i \in Invocations |-> "free"]
    /\ waitForChanges = [i \in Invocations |-> FALSE]
    /\ domCopyA = [i \in Invocations |-> EmptyTree]
    /\ domCopyB = [i \in Invocations |-> EmptyTree]
    /\ lastReport = NoReport
    /\ domChanges = 0
    /\ background = "memory"
    /\ BackgroundStart
    /\ SyncIdle
    /\ app = [pc |-> "firstUpdated",
              activation |-> IF patternConfigIsValid THEN Off ELSE PermanentlyOff,
              initActivation |-> IF patternConfigIsValid THEN Off ELSE PermanentlyOff,
              results |-> NoResults, refreshing |-> 0]
    /\ buttons = [currentPatternId |-> NoPhid, sending |-> 0, sent |-> NoPhid]
    /\ currentTab \in [http : BOOLEAN, isEnabled : BOOLEAN]

NextPopup ==
    \/ FirstUpdated
    \/ FirstUpdatedTab
    \/ FirstUpdatedActivation
    \/ \E results \in PopupReports : FirstUpdatedResults(results)
    \/ \E message \in PopupReports : handleMessage(message)
    \/ changeActivation
    \/ refreshTab
    \/ refreshTabThen
    \/ \E step \in {1, -1} : showPattern(step)
    \/ showPatternThen

SpecPopup == InitPopup /\ [][NextPopup]_vars

\* -------------------------------------------------------------------- claims

\* An invocation that has taken the lock and has not returned.
Entered(i) == pc[i] # "free"
Tagged(t, n) == t[n].present /\ patternDetectedClassName \in t[n].cls

\* A page change reached the document after the older copy was taken.
ChangedSinceOlderCopy(i) ==
    \E n \in PageSlots :
        /\ live[n].present /\ domCopyA[i][n].present
        /\ live[n].text # domCopyA[i][n].text

\* C1: at most one classification pass is in flight: never are two invocations
\* of patternHighlighting past the lock test together, and the one that is
\* holds the lock.
C1_AtMostOnePassInFlight ==
    /\ Cardinality({i \in Invocations : Entered(i)}) <= 1
    /\ \A i \in Invocations : Entered(i) => lock = TRUE

\* C1 witness: a pass started by a change notification is in its wait while
\* the popup's listener is installed, so a redo may arrive meanwhile.
C1_Witness ==
    \E i \in Invocations : pc[i] = "debounce" /\ lock = TRUE /\ Listening

\* C2 as claimed: a page change made while a run is Running leaves a
\* notification waiting, from which the follow-up run would start.
C2_ChangeWhileRunningQueuesFollowUp ==
    [][(lock = TRUE /\ PageChange) => records']_vars

\* C2 as amended: a page change made while a run is Running is not recorded and
\* starts nothing, and when the run returns no notification waits and no
\* invocation is left.
C2_ChangesWhileRunningAreNotObserved ==
    [][/\ (lock = TRUE /\ PageChange) =>
              (~records' /\ UNCHANGED <<lock, pc, waitForChanges>>)
       /\ \A i \in Invocations :
              (pc[i] = "unlock" /\ pc'[i] = "free") =>
                  (~records' /\ \A j \in Invocations : pc'[j] = "free")]_vars

\* C2 witness: during the settle wait of a run the page has changed a text.
C2_Witness ==
    \E i \in Invocations :
        pc[i] = "settle" /\ lock = TRUE /\ ChangedSinceOlderCopy(i)

\* C3: no execution leaves the lock set for ever: whenever the lock is set, an
\* invocation is under way that will clear it.
C3_LockHeldOnlyByARunningPass ==
    lock = TRUE => \E i \in Invocations : pc[i] \notin {"free", "rejected"}

\* C4: a detector that throws is swallowed: classification always runs to its
\* end and the pass goes on to its next step.
C4_ThrowingDetectorIsSwallowed ==
    [][\A i \in Invocations :
          pc[i] = "classify" => pc'[i] \in {"classify", "destroy"}]_vars

\* The detection functions that return a non-boolean whatever the node.
NonBooleanKinds == {"matchScarcityEn"}

\* C5: a non-boolean return value is no match: a pattern all of whose detection
\* functions return non-booleans tags no element.
C5_NonBooleanIsNoMatch ==
    \A p \in 1..Len(patternConfig) :
        (\A f \in 1..Len(patternConfig[p].detectionFunctions.items) :
            patternConfig[p].detectionFunctions.items[f].kind \in NonBooleanKinds)
        => \A n \in AllSlots :
              ExtClass(patternConfig[p].className.val) \notin live[n].cls

\* C6 as claimed: no tagged element has a tagged ancestor.
C6_NoTaggedAncestorAndDescendant ==
    \A a, b \in AllSlots :
        a \in Ancestors(b) => ~(Tagged(live, a) /\ Tagged(live, b))

\* The copy t without the subtrees of the nodes whose identifiers are in ids.
WithoutIds(t, ids) ==
    [n \in AllSlots |->
        IF \E r \in AllSlots : /\ t[r].present /\ t[r].phid \in ids
                               /\ n \in Subtree(r)
        THEN AbsentElem ELSE t[n]]

\* What findPatterInNode yields for node a on the two copies of invocation i
\* with the subtrees of the identifiers ids taken out of both.
FoundOnPruned(i, a, ids) ==
    LET newer == WithoutIds(domCopyB[i], ids)
        older == WithoutIds(domCopyA[i], ids)
    IN  findPatterInNode(patternConfig, newer, a, older,
                         getElementByPhid(older, PhidOf(newer, a)))

\* The identifiers of the descendants of a that the tree doc shows tagged.
TaggedDescendantIds(doc, a) ==
    {doc[d].phid : d \in {d \in Subtree(a) \ {a} : Tagged(doc, d)}}

\* C6 as amended: when classification leaves an element and one of its
\* descendants both tagged, a detector matched the element's content with the
\* subtrees of all its tagged descendants removed from both copies, and the
\* element carries that pattern's class.
C6_AncestorTaggedOnItsOwnContent ==
    [][\A i \in Invocations :
          (pc[i] = "classify" /\ pc'[i] # "classify") =>
             \A a, b \in AllSlots :
                (a \in Ancestors(b) /\ Tagged(live', a) /\ Tagged(live', b)) =>
                   LET found == FoundOnPruned(i, a, TaggedDescendantIds(live', a))
                   IN  /\ ~found.thrown
                       /\ found.className # NoClass
                       /\ ExtClass(found.className) \in live'[a].cls]_vars

\* C6 witness: an element and its descendant are both tagged.
C6_Witness ==
    \E a, b \in AllSlots :
        a \in Ancestors(b) /\ Tagged(live, a) /\ Tagged(live, b)

\* The class of the earliest pattern one of whose detection functions returns
\* the boolean true for node a, NoClass when there is none.
EarliestReturningTrue(i, a, ids) ==
    LET newer == WithoutIds(domCopyB[i], ids)
        older == WithoutIds(domCopyA[i], ids)
        nodeOld == getElementByPhid(older, PhidOf(newer, a))
        ps == {p \in 1..Len(patternConfig) :
                \E f \in 1..Len(patternConfig[p].detectionFunctions.items) :
                    DetectorResult(patternConfig[p].detectionFunctions.items[f].kind,
                                   newer, a, older, nodeOld) = "true"}
    IN  IF ps = {} THEN NoClass ELSE patternConfig[Min(ps)].className.val

\* C7: when classification ends, every tagged element carries the generic
\* marker and exactly one pattern class, that of the earliest pattern one of
\* whose detection functions returned true for the node.
C7_TagIsEarliestPatternReturningTrue ==
    [][\A i \in Invocations :
          (pc[i] = "classify" /\ pc'[i] = "destroy") =>
             \A a \in AllSlots :
                Tagged(live', a) =>
                   live'[a].cls =
                      {patternDetectedClassName,
                       ExtClass(EarliestReturningTrue(
                                   i, a, TaggedDescendantIds(live', a)))}]_vars

\* C8: with an invalid configuration the engine is off as a whole: no pass, no
\* identifier, no tag, no report, no observation and no listener, ever.
C8_InvalidConfigDisablesEngine ==
    ~validatePatternConfig(patternConfig) =>
        /\ lock = FALSE /\ ~observing /\ ~records /\ counter = 0
        /\ \A i \in Invocations : pc[i] = "free"
        /\ \A n \in AllSlots : live[n].phid = NoPhid /\ live[n].cls = {}
        /\ lastReport = NoReport
        /\ initPc \in {"askActivation", "importing", "disabled", "invalid"}

\* C8 witness: the configuration was found invalid and the page went on
\* changing.
C8_Witness == initPc = "invalid" /\ domChanges = MaxDomChanges

\* C9: a run request made while the lock is set, from the popup or from the
\* observer, changes neither the lock, the observation, the document, the
\* counter, the copies nor any invocation.
C9_RequestWhileRunningIsDropped ==
    [][(lock = TRUE /\ (OnMessageRedo \/ ObserverCallback)) =>
          UNCHANGED <<lock, observing, live, counter, pc, waitForChanges,
                      domCopyA, domCopyB, lastReport, initPc>>]_vars

\* C9 witness: a run is in its settle wait with the popup's listener installed
\* and no notification waiting: a redo arriving now is a dropped request.
C9_Witness ==
    \E i \in Invocations :
        pc[i] = "settle" /\ lock = TRUE /\ Listening /\ ~records

\* The steps of a pass in the order of patternHighlighting.
PassOrder ==
    { <<"free", "disconnect">>, <<"disconnect", "debounce">>,
      <<"disconnect", "stampA">>, <<"debounce", "stampA">>,
      <<"stampA", "cloneA">>, <<"cloneA", "filterA">>, <<"filterA", "settle">>,
      <<"settle", "stampB">>, <<"stampB", "cloneB">>, <<"cloneB", "filterB">>,
      <<"filterB", "reset">>, <<"reset", "classify">>, <<"classify", "destroy">>,
      <<"destroy", "send">>, <<"send", "observe">>, <<"observe", "unlock">>,
      <<"unlock", "free">> }

\* C10: within every pass the steps follow one another in this order and none
\* is skipped, up to the release of the lock.
C10_StepsInOrderNoneSkipped ==
    [][\A i \in Invocations :
          pc'[i] # pc[i] => <<pc[i], pc'[i]>> \in PassOrder]_vars

\* The invocation that a request accepted in this step begins.
Begins(i) == pc[i] = "free" /\ pc'[i] = "disconnect"

\* C11: a pass begun by the observer's callback reaches the capture of the
\* older copy only out of the 2000 ms wait; a pass begun by a redo message or
\* by initialisation reaches it straight from the disconnect, with no wait.
C11_DebounceOnlyForNotifiedPasses ==
    [][\A i \in Invocations :
          /\ (ObserverCallback /\ Begins(i)) => waitForChanges'[i] = TRUE
          /\ ((OnMessageRedo \/ InitImported) /\ Begins(i)) =>
                 waitForChanges'[i] = FALSE
          /\ (pc[i] # "stampA" /\ pc'[i] = "stampA") =>
                 /\ waitForChanges[i] = TRUE => pc[i] = "debounce"
                 /\ waitForChanges[i] = FALSE => pc[i] = "disconnect"
          /\ pc[i] \notin {"free", "rejected"} =>
                 waitForChanges'[i] = waitForChanges[i]]_vars

\* C11 witness: a pass begun by a change notification has sat out its wait and
\* is about to stamp and capture the older copy.
C11_Witness ==
    \E i \in Invocations :
        pc[i] = "stampA" /\ waitForChanges[i] = TRUE /\ lock = TRUE

\* The steps of a pass that come before its classification has written a tag.
BeforeTagging ==
    {"disconnect", "debounce", "stampA", "cloneA", "filterA", "settle",
     "stampB", "cloneB", "filterB", "reset", "classify"}

\* C12 as claimed: once a pass has begun, no tag of an earlier pass is left on
\* the document: while the pass has not yet tagged, no element is tagged.
C12_NoEarlierTagOncePassBegun ==
    \A i \in Invocations :
        pc[i] \in BeforeTagging => \A n \in AllSlots : ~Tagged(live, n)

\* C12 as amended: the steps of a pass up to the second capture leave every
\* element's classes as they are; the reset, which follows the second capture,
\* leaves no element tagged and no pattern class; when classification ends
\* every tagged element was matched by this pass on the copies, and the
\* remaining steps of the pass leave the document alone.
C12_TagsResetBeforeClassification ==
    [][\A i \in Invocations :
          /\ (pc[i] \in {"disconnect", "stampA", "cloneA", "filterA", "stampB",
                         "cloneB", "filterB"} /\ pc'[i] # pc[i]) =>
                 \A n \in AllSlots : live'[n].cls = live[n].cls
          /\ (pc[i] = "reset" /\ pc'[i] = "classify") =>
                 \A n \in AllSlots :
                    /\ ~Tagged(live', n)
                    /\ live'[n].cls \subseteq {currentPatternClassName}
          /\ (pc[i] = "classify" /\ pc'[i] = "destroy") =>
                 \A n \in AllSlots :
                    Tagged(live', n) =>
                       LET b == getElementByPhid(domCopyB[i], live'[n].phid)
                       IN  /\ b # Null
                           /\ FoundOnPruned(
                                 i, b, TaggedDescendantIds(live', n)).className
                                 # NoClass
          /\ (pc[i] \in {"destroy", "send", "observe", "unlock"}
                /\ pc'[i] # pc[i]) => live' = live]_vars

\* C12 witness: the reset of a pass has cleared tags that the previous pass
\* had reported.
C12_Witness ==
    \E i \in Invocations :
        /\ pc[i] = "classify" /\ lastReport # NoReport /\ lastReport.count > 0
        /\ \A n \in AllSlots : ~Tagged(live, n)

\* The steps of a pass between its tag reset and the dispatch of its report; a
\* pass that a detector's exception has ended stays between the two.
BetweenResetAndDispatch == {"classify", "destroy", "send", "rejected"}

\* C13: no getPatternCount query is answered, and no redo or showElement is
\* processed, while a pass stands between its tag reset and the dispatch of
\* its report: whenever the listener may run, no invocation is there.
C13_NoQueryBetweenResetAndDispatch ==
    (Listening /\ TaskMayStart) =>
        \A i \in Invocations : pc[i] \notin BetweenResetAndDispatch

\* The identifiers a report lists for its p-th pattern.
ListedPhids(r, p) ==
    {r.patterns[p].elementsVisible[k] :
        k \in 1..Len(r.patterns[p].elementsVisible)}
    \cup {r.patterns[p].elementsHidden[k] :
             k \in 1..Len(r.patterns[p].elementsHidden)}

\* The identifiers of the elements of the document that carry the class of the
\* p-th pattern.
LivePhidsOfPattern(p) ==
    {live[n].phid :
        n \in {n \in AllSlots :
                 /\ live[n].present
                 /\ ExtClass(patternConfig[p].className.val) \in live[n].cls}}

\* C14 as claimed: whenever a getPatternCount query can be answered, the answer
\* is the report that the last completed pass sent.
C14_AnswerIsLastDispatchedReport ==
    (Listening /\ TaskMayStart) => GetPatternCountResponse = lastReport

\* C14 as amended: the answer is computed from the document as it is when the
\* query arrives: it lists, pattern by pattern, exactly the identifiers of the
\* elements now in the document with that pattern's class, and counts the
\* elements now tagged; it is the report last sent at the moment a pass has
\* sent it.
C14_AnswerComputedFromLiveTree ==
    /\ (Listening /\ TaskMayStart) =>
          LET r == GetPatternCountResponse
          IN  /\ Len(r.patterns) = Len(patternConfig)
              /\ \A p \in 1..Len(patternConfig) :
                    /\ p <= Len(r.patterns)
                    /\ ListedPhids(r, p) = LivePhidsOfPattern(p)
              /\ r.count = Cardinality({n \in AllSlots : Tagged(live, n)})
    /\ \A i \in Invocations :
          pc[i] \in {"observe", "unlock"} => GetPatternCountResponse = lastReport

\* C14 witness: a query can be answered, and the document no longer holds all
\* the tagged elements of the report last sent.
C14_Witness ==
    /\ Listening /\ TaskMayStart
    /\ lastReport # NoReport /\ lastReport.count > 0
    /\ GetPatternCountResponse.count < lastReport.count

\* How often the identifier id occurs in the list s.
Occurrences(s, id) == Cardinality({k \in 1..Len(s) : s[k] = id})

\* The entries of the visible lists (of both lists, when all is TRUE) of the
\* report r, as pairs of pattern and position.
ListEntries(r, all) ==
    {e \in (1..Len(r.patterns)) \X (1..2) \X (1..(MaxNodes + 1)) :
        /\ e[2] = 2 => all
        /\ e[3] <= Len(IF e[2] = 1 THEN r.patterns[e[1]].elementsVisible
                       ELSE r.patterns[e[1]].elementsHidden)}

\* The report r partitions the tagged elements of the document by
\* visibility, pattern by pattern, and its counts are the list lengths.
PartitionsLiveTree(r) ==
    /\ Len(r.patterns) = Len(patternConfig)
    /\ \A p \in 1..Len(patternConfig) :
          LET vis == r.patterns[p].elementsVisible
              hid == r.patterns[p].elementsHidden
              tagged == {n \in AllSlots :
                           /\ live[n].present
                           /\ ExtClass(patternConfig[p].className.val)
                                 \in live[n].cls}
              sameId(n) == {m \in tagged : live[m].phid = live[n].phid}
          IN  /\ \A n \in tagged :
                    /\ Occurrences(vis, live[n].phid)
                          = Cardinality({m \in sameId(n) : ~live[m].hidden})
                    /\ Occurrences(hid, live[n].phid)
                          = Cardinality({m \in sameId(n) : live[m].hidden})
                    /\ (Occurrences(vis, live[n].phid) = 0)
                          # (Occurrences(hid, live[n].phid) = 0)
              /\ Len(vis) + Len(hid) = Cardinality(tagged)
    /\ r.countVisible = Cardinality(ListEntries(r, FALSE))
    /\ r.count = Cardinality(ListEntries(r, TRUE))

Content(e) == [present |-> e.present, tag |-> e.tag, text |-> e.text,
               hidden |-> e.hidden]

\* C16: a step of a pass leaves every position of the document with the same
\* element, tag, text and visibility; it writes an identifier only where there
\* was none, and the only classes it adds or takes away are the extension's.
C16_PassChangesOnlyStampsAndTags ==
    [][PassStep =>
          \A n \in AllSlots :
             /\ Content(live'[n]) = Content(live[n])
             /\ live[n].phid # NoPhid => live'[n].phid = live[n].phid
             /\ \A c \in (live'[n].cls \ live[n].cls)
                         \cup (live[n].cls \ live'[n].cls) :
                    c.prefix = extensionClassPrefix]_vars

\* C16 witness: a pass has taken and filtered its newer copy, from which a
\* script element is gone that is still in the document.
C16_Witness ==
    \E i \in Invocations :
        /\ pc[i] = "reset"
        /\ \E n \in PageSlots :
              /\ live[n].present /\ live[n].tag = "script"
              /\ ~domCopyB[i][n].present

\* Calling the assigner on the document, and calling it again on the result.
StampedOnce == addPhidForEveryElement(live, counter)
StampedTwice == addPhidForEveryElement(StampedOnce.tree, StampedOnce.counter)

\* C17: whatever the document, a second call of the assigner right after a
\* first changes no element and does not move the counter, and the first
\* leaves every identifier that was there; no step takes an identifier from an
\* element that stays in the document or gives it another (showElement puts a
\* new shadow element in the place of the old one), and each capture copies the
\* elements with the identifiers they have, so an element that stays through
\* both captures has one identifier in both copies.
C17_IdentityIdempotentAndStable ==
    /\ [](/\ StampedTwice = StampedOnce
          /\ \A n \in AllSlots :
                (live[n].present /\ live[n].phid # NoPhid) =>
                    StampedOnce.tree[n].phid = live[n].phid)
    /\ [][\A n \in AllSlots :
            /\ (/\ live[n].present /\ live[n].phid # NoPhid /\ live'[n].present
                /\ (n = ShadowSlot => PassStep))
                  => live'[n].phid = live[n].phid
            /\ \A i \in Invocations :
                  /\ pc[i] = "cloneA" /\ pc'[i] = "filterA" =>
                        domCopyA'[i][n] = live[n]
                  /\ pc[i] = "cloneB" /\ pc'[i] = "filterB" =>
                        domCopyB'[i][n] = live[n]
           ]_vars

\* C17 witness: the second stamping of a pass is due on a document in which
\* the first has stamped an element and the page has since inserted another.
C17_Witness ==
    \E i \in Invocations :
        /\ pc[i] = "stampB"
        /\ \E n, m \in PageSlots :
              /\ live[n].present /\ live[n].phid # NoPhid
              /\ domCopyA[i][n].present
              /\ live[m].present /\ live[m].phid = NoPhid

\* The page copies one of its elements that has no element children, with all
\* its attributes (cloneNode), and inserts the copy at an empty position.
PageClone(src, dst) ==
    /\ PageMayChange
    /\ live[src].present /\ Children(live, src) = <<>>
    /\ ~live[dst].present
    /\ ParentOf(dst) # Body => live[ParentOf(dst)].present
    /\ live' = [live EXCEPT ![dst] = live[src]]
    /\ records' = observing
    /\ domChanges' = domChanges + 1
    /\ UNCHANGED <<patternConfig, initPc, lock, observing, counter, pc,
                   waitForChanges, domCopyA, domCopyB, lastReport, otherVars>>

\* The content script on a page whose scripts also copy elements.
NextCloning ==
    \/ Next
    \/ \E src, dst \in PageSlots : PageClone(src, dst)

SpecCloning == Init /\ [][NextCloning]_vars

\* All the identifiers in the tree t are distinct.
PhidsDistinct(t) ==
    \A n, m \in AllSlots :
        (n # m /\ t[n].present /\ t[m].present /\ t[n].phid # NoPhid)
            => t[n].phid # t[m].phid

\* C18: no two elements of the document carry the same identifier, the
\* identifiers of each copy are distinct, and every identifier in use is below
\* the counter, from which the next one will come.
C18_IdentifiersUnique ==
    /\ PhidsDistinct(live)
    /\ \A i \in Invocations : PhidsDistinct(domCopyA[i]) /\ PhidsDistinct(domCopyB[i])
    /\ \A n \in AllSlots : live[n].present => live[n].phid < counter

\* C19: when both copies of a pass are taken and filtered, an element of the
\* older copy is found by its identifier in the newer copy exactly when the
\* element it was copied from is still in the document, at its place and with
\* its identifier.
C19_OlderLocatableIffStillLive ==
    \A i \in Invocations :
        pc[i] = "reset" =>
            \A a \in AllSlots :
                domCopyA[i][a].present =>
                    ((getElementByPhid(domCopyB[i], domCopyA[i][a].phid) # Null)
                     <=> (/\ live[a].present
                          /\ live[a].phid = domCopyA[i][a].phid))

\* Values a configuration field may hold besides a string: a number.
Num(s) == [type |-> "number", val |-> s]

\* Candidate entries of patternConfig.patterns: every field well-formed or
\* ill-formed in the ways validatePatternConfig tests for.
CandidateFunctionLists ==
    { [isArray |-> TRUE, items |-> <<DetectionFunction("scarcityEn")>>],
      [isArray |-> TRUE, items |-> <<>>],
      [isArray |-> FALSE, items |-> <<>>],
      [isArray |-> TRUE,
       items |-> <<DetectionFunction("scarcityEn"),
                   [isFunction |-> TRUE, length |-> 1, kind |-> "scarcityDe"]>>],
      [isArray |-> TRUE,
       items |-> <<[isFunction |-> FALSE, length |-> 2, kind |-> "scarcityEn"]>>] }

CandidateLanguageLists ==
    { [isArray |-> TRUE, items |-> <<Str("en"), Str("de")>>],
      [isArray |-> TRUE, items |-> <<>>],
      [isArray |-> FALSE, items |-> <<>>],
      [isArray |-> TRUE, items |-> <<Str("en"), Str("")>>],
      [isArray |-> TRUE, items |-> <<Num("1")>>] }

CandidatePatterns ==
    [name : {Str("Scarcity"), Str("Countdown"), Str(""), Undefined, Num("7")},
     className : {Str("scarcity"), Str(""), Num("7")},
     detectionFunctions : CandidateFunctionLists,
     infoUrl : {Str("https://dapde.de/"), Undefined},
     info : {Str("info"), Str("")},
     languages : CandidateLanguageLists]

\* Candidate configurations: one candidate entry alone, or next to a shipped
\* one, before or after it.
CandidateConfigs ==
    {<<p>> : p \in CandidatePatterns}
        \cup {<<p, ShippedConfig[2]>> : p \in CandidatePatterns}
        \cup {<<ShippedConfig[1], p>> : p \in CandidatePatterns}

\* The content script is loaded with a candidate configuration.
InitValidate ==
    /\ patternConfig \in CandidateConfigs
    /\ initPc = "askActivation"
    /\ lock = FALSE
    /\ observing = FALSE
    /\ records = FALSE
    /\ live = EmptyTree
    /\ counter = 0
    /\ pc = [i \in Invocations |-> "free"]
    /\ waitForChanges = [i \in Invocations |-> FALSE]
    /\ domCopyA = [i \in Invocations |-> EmptyTree]
    /\ domCopyB = [i \in Invocations |-> EmptyTree]
    /\ lastReport = NoReport
    /\ domChanges = 0
    /\ background = "memory"
    /\ BackgroundStart
    /\ SyncIdle
    /\ PopupClosed

\* initPatternHighlighter up to its test of patternConfigIsValid.
NextValidate ==
    \/ \E b \in BOOLEAN : InitActivationReply(b)
    \/ InitImported

SpecValidate == InitValidate /\ [][NextValidate]_vars

NonEmptyString(v) == v.type = "string" /\ v.val # ""
NonEmptyArray(a) == a.isArray /\ Len(a.items) >= 1

\* Validity as the registry's contract words it.
ValidByContract(cfg) ==
    /\ \A i, j \in 1..Len(cfg) : i # j => cfg[i].name # cfg[j].name
    /\ \A i \in 1..Len(cfg) :
          /\ NonEmptyString(cfg[i].name)
          /\ NonEmptyString(cfg[i].className)
          /\ NonEmptyString(cfg[i].infoUrl)
          /\ NonEmptyString(cfg[i].info)
          /\ NonEmptyArray(cfg[i].detectionFunctions)
          /\ \A f \in 1..Len(cfg[i].detectionFunctions.items) :
                LET func == cfg[i].detectionFunctions.items[f]
                IN  func.isFunction /\ func.length = 2
          /\ NonEmptyArray(cfg[i].languages)
          /\ \A l \in 1..Len(cfg[i].languages.items) :
                NonEmptyString(cfg[i].languages.items[l])

\* C20: validatePatternConfig returns true exactly for the configurations with
\* pairwise distinct names whose every pattern has a non-empty string name,
\* className, infoUrl and info, a non-empty array of functions of length 2 and
\* a non-empty array of non-empty language strings; initPatternHighlighter
\* goes on to the first pass exactly for those.
C20_ValidateIffContract ==
    /\ [](validatePatternConfig(patternConfig) <=> ValidByContract(patternConfig))
    /\ [][InitImported =>
            ((initPc' = "firstPass") <=> ValidByContract(patternConfig))]_vars

\* C20 witness: a configuration of two well-formed patterns with one name has
\* been found invalid.
C20_Witness ==
    /\ initPc = "invalid"
    /\ Len(patternConfig) = 2
    /\ patternConfig[1].name = patternConfig[2].name
    /\ \A i \in 1..2 : PatternValid(patternConfig[i])

\* C21: a configuration that validatePatternConfig accepts has pairwise
\* distinct class names.
C21_AcceptedHasDistinctClassNames ==
    validatePatternConfig(patternConfig) =>
        \A i, j \in 1..Len(patternConfig) :
            i # j => patternConfig[i].className # patternConfig[j].className

\* A container with two children carrying the given texts; the second child
\* is left out when its text is "".
FamilyTree(txt2, txt3) ==
    [n \in AllSlots |->
        IF n = ShadowSlot \/ n > 3 \/ (n = 3 /\ txt3 = "") THEN AbsentElem
        ELSE [NewElem("div", IF n = 1 THEN "hello" ELSE IF n = 2 THEN txt2 ELSE txt3,
                      FALSE) EXCEPT !.phid = n - 1]]

\* A first pass stands before its reset: the older copy shows the family as it
\* was at the first capture, the document and the newer copy as it is now; the
\* second child may have been inserted during the settle wait.  The texts are
\* running, static and overlong countdowns and a text without one.
InitCountdown ==
    /\ patternConfig = ShippedConfig
    /\ initPc = "firstPass"
    /\ lock = TRUE
    /\ observing = FALSE
    /\ records = FALSE
    /\ \E new2, new3, old2, old3 \in
             {"hello", "23:59:58", "23:59:57", "23:58:59", "59:58",
              "01:02:03:04:05", ""} :
          /\ new2 # "" /\ new3 # "" /\ old2 # ""
          /\ live = FamilyTree(new2, new3)
          /\ domCopyB = [i \in Invocations |->
                            IF i = 1 THEN FamilyTree(new2, new3) ELSE EmptyTree]
          /\ domCopyA = [i \in Invocations |->
                            IF i = 1 THEN FamilyTree(old2, old3) ELSE EmptyTree]
    /\ counter = 3
    /\ pc = [i \in Invocations |-> IF i = 1 THEN "reset" ELSE "free"]
    /\ waitForChanges = [i \in Invocations |-> FALSE]
    /\ lastReport = NoReport
    /\ domChanges = 0
    /\ background = "memory"
    /\ BackgroundStart
    /\ SyncIdle
    /\ PopupClosed

\* The pass from its reset to its end.
NextCountdown ==
    \E i \in Invocations :
        \/ Reset(i) \/ Classify(i) \/ Destroy(i) \/ Send(i)
        \/ Observe(i) \/ Unlock(i)

SpecCountdown == InitCountdown /\ [][NextCountdown]_vars

\* The countdown verdict as the contract words it, on the current and the
\* previous text.
CountdownByContract(txtNew, hasOld, txtOld) ==
    /\ hasOld
    /\ txtNew # txtOld
    /\ LET matchesNew == SelectSeq(txtNew, IsCountdownText)
           matchesOld == SelectSeq(txtOld, IsCountdownText)
       IN  /\ Len(matchesNew) = Len(matchesOld)
           /\ \E k \in 1..Len(matchesNew) :
                 LET fNew == CountdownFields(matchesNew[k])
                     fOld == CountdownFields(matchesOld[k])
                 IN  /\ Len(fNew) = Len(fOld)
                     /\ \E x \in 1..Len(fNew) :
                           /\ fNew[x] < fOld[x]
                           /\ \A y \in 1..(x - 1) : fNew[y] = fOld[y]

\* The verdict of the contract for node n of the copies of invocation i.
CountdownExpected(i, n) ==
    LET nodeOld == getElementByPhid(domCopyA[i], PhidOf(domCopyB[i], n))
    IN  CountdownByContract(
            InnerText(domCopyB[i], n), nodeOld # Null,
            IF nodeOld = Null THEN <<>> ELSE InnerText(domCopyA[i], nodeOld))

NewScarcityLeaf(i, n) ==
    /\ domCopyB[i][n].present
    /\ Children(domCopyB[i], n) = <<>>
    /\ MatchesScarcityEn(domCopyB[i][n].text) \/ MatchesScarcityDe(domCopyB[i][n].text)
    /\ getElementByPhid(domCopyA[i], PhidOf(domCopyB[i], n)) = Null

\* C23: with the shipped configuration, an element that is new in the newer
\* copy, whose text is a scarcity claim and which is still in the document, is
\* tagged as scarcity by the classification of the pass that captured it.
C23_NewScarcityElementTagged ==
    [][\A i \in Invocations :
          (pc[i] = "classify" /\ pc'[i] = "destroy"
              /\ patternConfig = ShippedConfig) =>
             \A n \in PageSlots :
                LET elem == getElementByPhid(live, PhidOf(domCopyB[i], n))
                IN  (NewScarcityLeaf(i, n) /\ elem # Null) =>
                       ExtClass("scarcity") \in live'[elem].cls]_vars

\* No page element carries the identifier.
Unresolved(t, phid) ==
    \A n \in PageSlots : t[n].present => t[n].phid # phid

\* C24 as stated: showElement with an identifier that resolves to no live
\* element leaves the document exactly as it was.
C24_UnresolvedShowLeavesTreeAsItWas ==
    [][\A phid \in 0..counter :
          (OnMessageShowElement(phid) /\ getElementByPhid(live, phid) = Null)
              => live' = live]_vars

\* C24 (amended): showElement with an identifier that no page element carries
\* leaves every page element as it was and leaves no shadow element (the
\* shadow element of an earlier call is removed); classification changes the
\* document only by adding classes to elements whose identifier is in the
\* newer copy, so an identifier that resolves to nothing changes nothing.
\* Neither ends in an error.
C24_UnresolvedChangesNoPageElement ==
    /\ [][\A phid \in 0..counter :
             (OnMessageShowElement(phid) /\ Unresolved(live, phid)) =>
                /\ \A n \in PageSlots : live'[n] = live[n]
                /\ ~live'[ShadowSlot].present
                /\ initPc' = initPc /\ pc' = pc]_vars
    /\ [][\A i \in Invocations :
             (pc[i] = "classify" /\ pc'[i] # "classify") =>
                \A n \in AllSlots :
                   \/ live'[n] = live[n]
                   \/ /\ live[n].present
                      /\ \E m \in AllSlots : /\ domCopyB[i][m].present
                                            /\ domCopyB[i][m].phid = live[n].phid
                      /\ live'[n].cls # live[n].cls
                      /\ live[n].cls \subseteq live'[n].cls
                      /\ live'[n] = [live[n] EXCEPT !.cls = live'[n].cls]]_vars

\* C24 witness: the three elements of the page carry the first three
\* identifiers, a fourth was given to a shadow element, and showElement with an
\* identifier that resolves to nothing has left the page without a shadow.
C24_Witness ==
    /\ \A n \in PageSlots : live[n].present /\ live[n].phid = n - 1
    /\ counter = MaxNodes + 1
    /\ ~live[ShadowSlot].present
    /\ domChanges = 2

\* C25: handling showElement leaves no change recorded for the observer, so
\* that no pass is started by it, and leaves the classes of every element as
\* they were.
C25_ShowElementStartsNoPass ==
    [][\A phid \in 0..counter :
          OnMessageShowElement(phid) =>
             /\ ~records'
             /\ \A n \in PageSlots : live'[n].cls = live[n].cls]_vars

\* The core has done nothing: no pass, no identifier, no class, no report, no
\* observation, no listener.
CoreNeverInvoked ==
    /\ lock = FALSE
    /\ \A i \in Invocations : pc[i] = "free"
    /\ counter = 0
    /\ \A n \in AllSlots : live[n].present => live[n].phid = NoPhid /\ live[n].cls = {}
    /\ ~observing /\ ~records
    /\ lastReport = NoReport
    /\ initPc # "listening"

\* C26: an answer other than isEnabled = true ends the initialisation; from
\* then on, whatever the page does, no pass starts, no identifier or class is
\* written and no listener is installed.
C26_DisabledTabNeverInvokesCore ==
    /\ [][InitActivationReply(FALSE) => initPc' = "disabled"]_vars
    /\ [](initPc = "disabled" => CoreNeverInvoked)
    /\ [][initPc = "disabled" =>
            /\ initPc' = "disabled"
            /\ ~OnMessageRedo /\ ~ObserverCallback /\ ~PassStep
            /\ \A phid \in 0..counter : ~OnMessageShowElement(phid)]_vars

\* C26 witness: the tab is disabled and the page has changed twice since.
C26_Witness ==
    /\ initPc = "disabled"
    /\ domChanges = MaxDomChanges
    /\ \E n \in PageSlots : live[n].present /\ live[n].text = "10 available"

\* C27: when nothing is under way in the background, a getActivationState
\* message for a tab is answered with the value of the most recent
\* enableExtension message for the tab, and with true when there was none
\* since the tab's state was last deleted.
C27_AnswerIsMostRecentEnableExtension ==
    pending = <<>> =>
        \A tabId \in Tabs :
            /\ lastStateEvent[tabId] \in Activations =>
                  GetActivationStateResponse(tabId) = lastStateEvent[tabId]
            /\ lastStateEvent[tabId] = "none" =>
                  GetActivationStateResponse(tabId) = "true"

\* An enableExtension message for the tab is still being processed.
EnableExtensionUnderWay(tabId) ==
    \E k \in 1..Len(pending) :
        pending[k].kind = "enableExtension" /\ pending[k].tabId = tabId

\* C28: once an enableExtension = false message for a tab has been processed,
\* and as long as it is the last that happened to the tab's state, the badge
\* text of the tab is empty, whatever reports arrive.
C28_BadgeEmptyWhileDisabled ==
    \A tabId \in Tabs :
        (lastStateEvent[tabId] = "false" /\ ~EnableExtensionUnderWay(tabId))
            => badgeText[tabId] = ""

\* C29: when a tab is replaced by another in the in-memory background, a
\* getActivationState message for the added tab is answered afterwards as one
\* for the removed tab would have been answered before, and the removed tab
\* has no state left.
C29_AddedTabAnswersAsRemovedTabDid ==
    [][\A a, r \in Tabs :
          OnReplaced(a, r) =>
             /\ extensionActivation'[r] = "absent"
             /\ GetActivationStateResponse(a)' = GetActivationStateResponse(r)]_vars

\* C30: after a run with no flag or with the clean flag, a manifest that was
\* in the "firefox" folder is there as it was; every other file that was in
\* the folder is gone, or, after a copy, is the file of "chrome"; and after a
\* copy every other file of "chrome" is in the folder.
C30_ManifestKeptOthersRemoved ==
    (syncPc = "exit0" /\ action \in {1, 2} /\ firefoxBefore[ManifestName].exists) =>
        /\ firefox[ManifestName] = firefoxBefore[ManifestName]
        /\ \A f \in FileNames \ {ManifestName} :
              /\ firefoxBefore[f].exists =>
                    firefox[f] = IF action = 1 THEN chrome[f] ELSE NoFile
              /\ (action = 1 /\ chrome[f].exists) => firefox[f] = chrome[f]

\* The nodes on which classification called findPatterInNode, in the order of
\* the calls.
VisitOrder(r) == [k \in 1..Len(r.visited) |-> r.visited[k].node]

\* C31: classification calls findPatterInNode exactly once on every element
\* of the newer copy none of whose ancestors matched, and on the root, each
\* after all the elements below it; so a sibling that follows a matched and
\* removed child is evaluated too.
C31_EveryElementEvaluatedOnceChildrenFirst ==
    [][\A i \in Invocations :
          (pc[i] = "classify" /\ pc'[i] = "destroy") =>
             LET r == findPatternDeep(patternConfig, domCopyB[i], domCopyA[i], live)
                 order == VisitOrder(r)
                 matched == {r.visited[k].node : k \in
                               {k \in 1..Len(r.visited) :
                                   r.visited[k].className # NoClass}}
             IN  /\ Occurrences(order, Body) = 1
                 /\ \A n \in AllSlots :
                       (domCopyB[i][n].present /\ Ancestors(n) \cap matched = {})
                           => Occurrences(order, n) = 1
                 /\ \A a, b \in 1..Len(order) :
                       order[a] \in Ancestors(order[b]) => b < a]_vars

\* C32: when findPatterInNode returns a class for a node other than the root,
\* the node with its subtree is out of the newer copy, and its previous state
\* with its subtree out of the older copy, at every later call, whether or not
\* the live element was found; the node's ancestors are evaluated by later
\* calls, so on texts without the matched subtree; and the node is still out
\* of the newer copy when classification returns.
C32_MatchedSubtreePrunedBeforeAncestors ==
    [][\A i \in Invocations :
          (pc[i] = "classify" /\ pc'[i] # "classify") =>
             LET r == findPatternDeep(patternConfig, domCopyB[i], domCopyA[i], live)
             IN  \A k \in 1..Len(r.visited) :
                    LET v == r.visited[k]
                    IN  (v.className # NoClass /\ v.node # Body) =>
                           /\ \A j \in (k + 1)..Len(r.visited) :
                                 /\ \A m \in Subtree(v.node) :
                                       ~r.visited[j].newer[m].present
                                 /\ v.nodeOld # Null =>
                                       \A m \in Subtree(v.nodeOld) :
                                          ~r.visited[j].older[m].present
                           /\ \A j \in 1..Len(r.visited) :
                                 r.visited[j].node \in Ancestors(v.node) => j > k
                           /\ \A m \in Subtree(v.node) : ~r.newer[m].present]_vars

\* C32 witness: classification has tagged a child and removed it from the
\* newer copy, and has left its parent, evaluated afterwards, untagged.
C32_Witness ==
    \E i \in Invocations, n \in PageSlots :
        /\ pc[i] = "destroy"
        /\ ParentOf(n) # Body
        /\ Tagged(live, n) /\ ~domCopyB[i][n].present
        /\ domCopyB[i][ParentOf(n)].present /\ ~Tagged(live, ParentOf(n))

\* A pass has run to its end and none is under way.
IdleAfterPass ==
    lock = FALSE /\ lastReport # NoReport /\ \A i \in Invocations : pc[i] = "free"

\* C35: whenever another task may run while the lock is set, the observer is
\* disconnected and holds no record; whenever no pass is under way after a
\* completed pass the observer is connected; a change of the document made
\* while no pass is under way is recorded for the observer, and one made while
\* the lock is set is not.
C35_LockedUnobservedIdleObserved ==
    /\ []((lock = TRUE /\ AtRest) => (~observing /\ ~records))
    /\ [](IdleAfterPass => observing)
    /\ [][(AtRest /\ live' # live) =>
             /\ IdleAfterPass => records'
             /\ lock = TRUE => ~records']_vars

\* C35 witness: after a completed pass, with no pass under way, the page has
\* changed and the change waits for the observer's callback.
C35_Witness ==
    IdleAfterPass /\ observing /\ records /\ domChanges > 0

\* C36: no step of a pass leaves a record for the observer; a pass starts only
\* from the initialisation, from a redo message or from the observer's
\* callback; and a record for the observer only ever arises from a change the
\* page made to one of its elements.  So after a pass nothing starts another
\* one but a page change or a redo.
C36_OnlyPageChangeOrRedoStartsAPass ==
    /\ [][PassStep => ~records']_vars
    /\ [][(lock = FALSE /\ lock' = TRUE) =>
             (InitImported \/ OnMessageRedo \/ ObserverCallback)]_vars
    /\ [][(~records /\ records') =>
             \E n \in PageSlots : live'[n] # live[n]]_vars

\* How often the identifier id stands in the lists of the report r, all
\* patterns and both lists taken together.
ListedTimes(r, id) ==
    Cardinality({e \in ListEntries(r, TRUE) :
                    (IF e[2] = 1 THEN r.patterns[e[1]].elementsVisible
                     ELSE r.patterns[e[1]].elementsHidden)[e[3]] = id})

\* C38: in the report a pass has just sent, count is the number of elements of
\* the document that carry the pattern-detected class, and the identifier of
\* each of them stands exactly once in the lists of the report.
C38_CountIsNumberOfMarkedElements ==
    (\E i \in Invocations : pc[i] \in {"observe", "unlock"}) =>
        LET marked == {n \in AllSlots : Tagged(live, n)}
        IN  /\ lastReport.count = Cardinality(marked)
            /\ \A n \in marked : ListedTimes(lastReport, live[n].phid) = 1

\* The element at position n of the tree t has a blacklisted tag or stands
\* below an element that has one.
InBlacklisted(t, n) ==
    \E a \in (Ancestors(n) \cup {n}) \ {Body} :
        t[a].present /\ t[a].tag \in tagBlacklist

\* C39: at every call of findPatterInNode neither copy holds an element that
\* is blacklisted or stands below a blacklisted one, in the copy or in the
\* document, so no text of such an element is in any text a detector reads;
\* and from the end of classification to the end of the pass no such element
\* of the document is tagged.
C39_BlacklistedNeverTaggedNorRead ==
    /\ [][\A i \in Invocations :
             (pc[i] = "classify" /\ pc'[i] # "classify") =>
                LET r == findPatternDeep(patternConfig, domCopyB[i], domCopyA[i], live)
                IN  \A k \in 1..Len(r.visited), m \in AllSlots :
                       /\ r.visited[k].newer[m].present =>
                             /\ ~InBlacklisted(r.visited[k].newer, m)
                             /\ ~InBlacklisted(live, m)
                       /\ r.visited[k].older[m].present =>
                             ~InBlacklisted(r.visited[k].older, m)]_vars
    /\ [](\A i \in Invocations :
             pc[i] \in {"destroy", "send", "observe", "unlock"} =>
                \A n \in AllSlots :
                   (live[n].present /\ InBlacklisted(live, n)) => ~Tagged(live, n))

\* A configuration the validation accepts in which two patterns share a class
\* name.
SharedClassConfig ==
    << Pattern("Scarcity", "scarcity", <<"scarcityEn", "scarcityDe">>),
       Pattern("Social Proof", "scarcity", <<"socialProofEn", "socialProofDe">>) >>

\* Pages whose body has up to two children: the first an element or a
\* <noscript> that may hold elements, the second (at the last position) an
\* element.
InitialPagesTwoChildren ==
    {t \in [AllSlots -> {AbsentElem, NewElem("div", "hello", FALSE),
                         NewElem("noscript", "", FALSE)}] :
        /\ \A n \in AllSlots : t[n].tag = "noscript" => n = 1
        /\ \A n \in PageSlots :
              t[n].present /\ ParentOf(n) # Body => t[ParentOf(n)].present}

InitTwoChildren ==
    /\ patternConfig \in {ShippedConfig, SharedClassConfig}
    /\ initPc = "askActivation"
    /\ lock = FALSE
    /\ observing = FALSE
    /\ records = FALSE
    /\ live \in InitialPagesTwoChildren
    /\ counter = 0
    /\ pc = [i \in Invocations |-> "free"]
    /\ waitForChanges = [i \in Invocations |-> FALSE]
    /\ domCopyA = [i \in Invocations |-> EmptyTree]
    /\ domCopyB = [i \in Invocations |-> EmptyTree]
    /\ lastReport = NoReport
    /\ domChanges = 0
    /\ background = "memory"
    /\ BackgroundStart
    /\ SyncIdle
    /\ PopupClosed

\* The content script on such a page, whose scripts write texts, insert,
\* remove and copy elements at every position; the popup asks for counts and
\* for a redo but shows no element.
NextTwoChildren ==
    \/ \E b \in BOOLEAN : InitActivationReply(b)
    \/ InitImported
    \/ PassStep
    \/ ObserverCallback
    \/ OnMessageRedo
    \/ OnMessageGetPatternCount
    \/ \E n \in AllSlots, txt \in {"hello", "10 available"} : PageSetText(n, txt)
    \/ \E n \in AllSlots : PageInsert(n, NewElem("div", "10 available", FALSE))
    \/ \E n \in AllSlots : PageRemove(n)
    \/ \E src, dst \in AllSlots : PageClone(src, dst)

SpecTwoChildren == InitTwoChildren /\ [][NextTwoChildren]_vars

\* C37: the root carries no identifier, so the call of findPatterInNode on it,
\* the last of a classification, is made without a previous state and,
\* whatever it returns, leaves the document and both copies as they were; and
\* no report lists an entry without an identifier.
C37_RootNeverStampedNorTagged ==
    /\ [][\A i \in Invocations :
             (pc[i] = "classify" /\ pc'[i] # "classify") =>
                LET r == findPatternDeep(patternConfig, domCopyB[i], domCopyA[i], live)
                IN  \A k \in 1..Len(r.visited) :
                       r.visited[k].node = Body =>
                          /\ k = Len(r.visited)
                          /\ r.visited[k].nodeOld = Null
                          /\ r.doc = r.visited[k].doc
                          /\ r.newer = r.visited[k].newer
                          /\ r.older = r.visited[k].older]_vars
    /\ [](/\ ListedTimes(lastReport, NoPhid) = 0
          /\ ListedTimes(GetPatternCountResponse, NoPhid) = 0)

\* C37 witness: classification has ended and a detection function matches the
\* text of the root as the newer copy now shows it.
C37_Witness ==
    \E i \in Invocations :
        /\ pc[i] = "destroy"
        /\ findPatterInNode(patternConfig, domCopyB[i], Body, domCopyA[i], Null)
              .className # NoClass

\* The activation the tab of the popup has: what the popup loads when it is
\* opened, and what a refresh sends to the background.
TabActivation ==
    IF ~patternConfigIsValid \/ ~currentTab.http THEN PermanentlyOff
    ELSE IF currentTab.isEnabled THEN On ELSE Off

\* C33: with an invalid configuration the activation of the popup is
\* PermanentlyOff, and so it is once the popup has found its tab not to hold
\* an HTTP(S) page; nothing leaves PermanentlyOff; otherwise a toggle of the
\* switch goes from On to Off and from Off to On; and once the popup is
\* initialised and no refresh is under way, the refresh button is shown
\* exactly when the activation of the popup differs from the one of the tab.
C33_ActivationStateMachine ==
    /\ [](~patternConfigIsValid => app.activation = PermanentlyOff)
    /\ [](app.pc = "done" /\ ~currentTab.http => app.activation = PermanentlyOff)
    /\ [][app.activation = PermanentlyOff => app'.activation = PermanentlyOff]_vars
    /\ [][changeActivation /\ app.activation # PermanentlyOff
            => /\ app.activation = On => app'.activation = Off
               /\ app.activation = Off => app'.activation = On
               /\ app.activation \in {On, Off}]_vars
    /\ [](app.pc = "done" /\ app.refreshing = 0
            => (RefreshButtonShown <=> app.activation # TabActivation))

\* The position (from 1) showPattern(step) is to select in a non-empty list:
\* the first or last with nothing selected, the first when the selected
\* identifier is gone, else the neighbour of the first entry bearing it,
\* going round at the ends.
SelectedNext(visiblePatterns, currentPatternId, step) ==
    LET n == Len(visiblePatterns)
        at == {k \in 1..n : visiblePatterns[k].phid = currentPatternId}
        p == Min(at)
    IN  IF currentPatternId = NoPhid THEN (IF step = 1 THEN 1 ELSE n)
        ELSE IF at = {} THEN 1
        ELSE IF step = 1 THEN (IF p = n THEN 1 ELSE p + 1)
        ELSE (IF p = 1 THEN n ELSE p - 1)

\* C34: a call of showPattern(+1) or showPattern(-1) selects the identifier
\* of the next or previous entry of the visible matches, going round at the
\* ends, the first or last entry with nothing selected, the first entry when
\* the selected identifier is no longer listed; the identifier selected is
\* in the list of that moment; each showElement message carries the
\* identifier selected when it is sent, so that with no message under way
\* the identifier last sent is the selected one.
C34_NavigationOverVisibleMatches ==
    /\ [](buttons.sending = 0 => buttons.sent = buttons.currentPatternId)
    /\ [][\A step \in {1, -1} :
            showPattern(step) =>
                LET visiblePatterns == extractVisiblePatterns(app.results)
                IN  /\ visiblePatterns # <<>>
                    /\ buttons'.currentPatternId =
                          visiblePatterns[SelectedNext(visiblePatterns,
                              buttons.currentPatternId, step)].phid
                    /\ \E k \in 1..Len(visiblePatterns) :
                          visiblePatterns[k].phid = buttons'.currentPatternId]_vars
    /\ [][showPatternThen => buttons'.sent = buttons.currentPatternId]_vars

\* The last of three or more visible matches has been selected and shown.
C34_Witness ==
    LET visiblePatterns == extractVisiblePatterns(app.results)
    IN  /\ Len(visiblePatterns) >= 3
        /\ buttons.sending = 0
        /\ buttons.sent # NoPhid
        /\ getIndexOfPatternId(visiblePatterns, buttons.sent)
              = Len(visiblePatterns) - 1

====
